---- MODULE Spec2Model ----
(***************************************************************************)
(* Model of the transcript segmentation engine of youtube-mcp-enhanced:    *)
(* TranscriptService.parseTimeToSeconds,                                   *)
(* TranscriptService.filterTranscriptSegments and                          *)
(* TranscriptService.getTranscript (src/src/services/transcript.ts), and   *)
(* a client that pages through a transcript with startIndex + maxSegments  *)
(* (src/src/server.ts, tool transcripts_getTranscript).                    *)
(*                                                                         *)
(* JavaScript values are modelled as follows.                              *)
(*   - a number that the code computes is a record [k, v]: k = "num" with  *)
(*     the integer v, k = "nan" for NaN, k = "-inf" for -Infinity          *)
(*     (Math.max of no arguments);                                         *)
(*   - a string is the sequence of its characters;                         *)
(*   - a time argument (string | number | undefined) is a record [k, v, s] *)
(*     with k = "num" (value v), k = "str" (characters s) or k = "undef";  *)
(*   - an optional number of the params object is <<>> when undefined and  *)
(*     <<n>> when supplied;                                                *)
(*   - a caption segment is [start, duration], both in whole seconds.      *)
(***************************************************************************)
EXTENDS Integers, Sequences, FiniteSets, TLC

VARIABLES
    transcript,   \* filterTranscriptSegments: the argument `transcript`
    params,       \* filterTranscriptSegments: the argument `params`
    filtered,     \* the successive values of the local `filtered`, by stage
    result,       \* the value filterTranscriptSegments returned
    pc,           \* "call" before the function runs, "done" after it returned
    timeArg,      \* parseTimeToSeconds: the argument `time`
    timeRet,      \* the value parseTimeToSeconds returned
    summary,      \* the metadata object built from `transcript` and `result`
    initialized,  \* TranscriptService: the instance field `initialized`
    calls,        \* the getTranscript calls in progress on the instance
    paging,       \* the paging client: page size, next page, pages so far
    views,        \* searchTranscript / getTimestampedTranscript calls
    oauth,        \* SharedGoogleOAuthClient: instance fields and running operations
    playlist,     \* PlaylistService: running write operations and calls issued
    mcp,          \* the MCP tools/call handler: request and result
    http,         \* HttpApiServer: the request being handled and its response
    jobs          \* TranscriptionJobService: the job map and pending work

engineVars ==
    <<transcript, params, filtered, result, pc, timeArg, timeRet, summary,
      initialized, calls, paging>>

serviceVars == <<views, oauth, playlist, mcp, http, jobs>>

vars == <<engineVars, serviceVars>>

(***************************************************************************)
(* Bounds of the model.                                                    *)
(***************************************************************************)
\* longest enumerated transcript
MaxLen == 3
\* segment starts are 0, 30, ..., 30 * MaxTick seconds
MaxTick == 3
\* largest enumerated startIndex / endIndex
MaxIdx == 1
\* largest enumerated maxSegments
MaxSeg == 2
\* longest enumerated time string
MaxStrLen == 5

(***************************************************************************)
(* JavaScript numbers.                                                     *)
(***************************************************************************)
JNum(n) == [k |-> "num", v |-> n]
NaN == [k |-> "nan", v |-> 0]
NegInfinity == [k |-> "-inf", v |-> 0]

\* a + b
JAdd(a, b) ==
    IF a.k = "nan" \/ b.k = "nan" THEN NaN
    ELSE IF a.k = "-inf" \/ b.k = "-inf" THEN NegInfinity
    ELSE JNum(a.v + b.v)

\* a * n for a finite positive factor n
JMul(a, n) ==
    IF a.k = "num" THEN JNum(a.v * n) ELSE a

\* a - n for a finite n
JSub(a, n) ==
    IF a.k = "num" THEN JNum(a.v - n) ELSE a

\* a >= b  (false as soon as one side is NaN)
JGe(a, b) ==
    IF a.k = "nan" \/ b.k = "nan" THEN FALSE
    ELSE IF b.k = "-inf" THEN TRUE
    ELSE IF a.k = "-inf" THEN FALSE
    ELSE a.v >= b.v

\* a <= b
JLe(a, b) == JGe(b, a)

\* Math.max(...xs) over finite numbers: -Infinity when xs is empty
RECURSIVE MathMax(_)
MathMax(xs) ==
    IF xs = <<>> THEN NegInfinity
    ELSE LET rest == MathMax(Tail(xs))
         IN  IF rest.k = "num" /\ rest.v >= Head(xs) THEN rest ELSE JNum(Head(xs))

(***************************************************************************)
(* Strings: String.prototype.split(':') and Number(part).                  *)
(***************************************************************************)
Digits == {"0", "1", "2", "3", "4", "5", "6", "7", "8", "9"}

DigitValue(c) ==
    CASE c = "0" -> 0 [] c = "1" -> 1 [] c = "2" -> 2 [] c = "3" -> 3
      [] c = "4" -> 4 [] c = "5" -> 5 [] c = "6" -> 6 [] c = "7" -> 7
      [] c = "8" -> 8 [] c = "9" -> 9

\* s.split(':'): the pieces between the colons, the empty string giving one
\* empty piece
RECURSIVE Split(_)
Split(s) ==
    IF s = <<>> THEN << <<>> >>
    ELSE LET rest == Split(Tail(s))
         IN  IF Head(s) = ":" THEN << <<>> >> \o rest
             ELSE << <<Head(s)>> \o Head(rest) >> \o Tail(rest)

RECURSIVE DecimalOf(_)
DecimalOf(part) ==
    IF part = <<>> THEN 0
    ELSE 10 * DecimalOf(SubSeq(part, 1, Len(part) - 1)) + DigitValue(part[Len(part)])

\* Number(part) for a part made of decimal digits and letters (no sign, point,
\* exponent, blank or radix prefix): the empty string is 0, a digit string its
\* decimal value, anything else NaN
NumberOf(part) ==
    IF \A i \in 1..Len(part) : part[i] \in Digits
    THEN JNum(DecimalOf(part))
    ELSE NaN

(***************************************************************************)
(* TranscriptService.parseTimeToSeconds                                    *)
(***************************************************************************)
TNum(n) == [k |-> "num", v |-> n, s |-> <<>>]
TStr(str) == [k |-> "str", v |-> 0, s |-> str]
TUndef == [k |-> "undef", v |-> 0, s |-> <<>>]

\* time.split(':').map(Number)
SplitParts(str) ==
    LET pieces == Split(str)
    IN  [i \in 1..Len(pieces) |-> NumberOf(pieces[i])]

\* parseTimeToSeconds counting the hours of HH:MM:SS as minutes
parseTimeToSecondsHoursAsMinutes(time) ==
    IF time.k = "num" THEN JNum(time.v)
    ELSE LET parts == SplitParts(time.s)
         IN  IF Len(parts) = 2
             THEN JAdd(JMul(parts[1], 60), parts[2])
             ELSE IF Len(parts) = 3
             THEN JAdd(JAdd(JMul(parts[1], 60), JMul(parts[2], 60)), parts[3])
             ELSE JNum(0)

parseTimeToSeconds(time) ==
    IF time.k = "num" THEN JNum(time.v)
    ELSE LET parts == SplitParts(time.s)
         IN  IF Len(parts) = 2
             THEN JAdd(JMul(parts[1], 60), parts[2])
             ELSE IF Len(parts) = 3
             THEN JAdd(JAdd(JMul(parts[1], 3600), JMul(parts[2], 60)), parts[3])
             ELSE JNum(0)

(***************************************************************************)
(* TranscriptService.filterTranscriptSegments                              *)
(***************************************************************************)
Undefined == <<>>
Some(n) == <<n>>
ValueOf(opt) == opt[1]

Min2(a, b) == IF a <= b THEN a ELSE b
Max2(a, b) == IF a >= b THEN a ELSE b

\* Array.prototype.slice(start, end) on integer arguments: a negative
\* argument counts from the end, both are clamped to [0, length]
Slice(arr, start, end) ==
    LET len == Len(arr)
        from == IF start < 0 THEN Max2(len + start, 0) ELSE Min2(start, len)
        to == IF end < 0 THEN Max2(len + end, 0) ELSE Min2(end, len)
    IN  SubSeq(arr, from + 1, to)

\* Math.max(...transcript.map(s => s.start + s.duration))
TotalDuration(segments) ==
    MathMax([i \in 1..Len(segments) |-> segments[i].start + segments[i].duration])

\* TimeWindowStage taking an inverted window as the window between its two
\* bounds
TimeWindowStageExchanging(running, p, totalDuration) ==
    IF p.startTime.k # "undef" \/ p.endTime.k # "undef"
    THEN LET startSeconds == IF p.startTime.k # "undef"
                             THEN parseTimeToSeconds(p.startTime) ELSE JNum(0)
             endSeconds == IF p.endTime.k # "undef"
                           THEN parseTimeToSeconds(p.endTime) ELSE totalDuration
             Keep(segment) ==
                 \/ /\ JGe(JNum(segment.start), startSeconds)
                    /\ JLe(JNum(segment.start), endSeconds)
                 \/ /\ JGe(JNum(segment.start), endSeconds)
                    /\ JLe(JNum(segment.start), startSeconds)
         IN  SelectSeq(running, Keep)
    ELSE running

\* TimeWindowStage with the end of the window excluded
TimeWindowStageOpenEnd(running, p, totalDuration) ==
    IF p.startTime.k # "undef" \/ p.endTime.k # "undef"
    THEN LET startSeconds == IF p.startTime.k # "undef"
                             THEN parseTimeToSeconds(p.startTime) ELSE JNum(0)
             endSeconds == IF p.endTime.k # "undef"
                           THEN parseTimeToSeconds(p.endTime) ELSE totalDuration
             Keep(segment) == /\ JGe(JNum(segment.start), startSeconds)
                              /\ JLe(JNum(segment.start), endSeconds)
                              /\ JNum(segment.start) # endSeconds
         IN  SelectSeq(running, Keep)
    ELSE running

\* lines 47-54: the absolute time window
TimeWindowStage(running, p, totalDuration) ==
    IF p.startTime.k # "undef" \/ p.endTime.k # "undef"
    THEN LET startSeconds == IF p.startTime.k # "undef"
                             THEN parseTimeToSeconds(p.startTime) ELSE JNum(0)
             endSeconds == IF p.endTime.k # "undef"
                           THEN parseTimeToSeconds(p.endTime) ELSE totalDuration
             Keep(segment) == /\ JGe(JNum(segment.start), startSeconds)
                              /\ JLe(JNum(segment.start), endSeconds)
         IN  SelectSeq(running, Keep)
    ELSE running

\* LastMinutesStage walking the list from its end and returning the kept
\* segments in the order it met them
LastMinutesStageFromEnd(running, p, totalDuration) ==
    IF p.lastMinutes # Undefined
    THEN LET startSeconds == JSub(totalDuration, ValueOf(p.lastMinutes) * 60)
             Keep(segment) == JGe(JNum(segment.start), startSeconds)
             kept == SelectSeq(running, Keep)
         IN  [i \in 1..Len(kept) |-> kept[Len(kept) + 1 - i]]
    ELSE running

\* LastMinutesStage measuring the total duration on the running sequence
LastMinutesStageRunningTotal(running, p, totalDuration) ==
    IF p.lastMinutes # Undefined
    THEN LET startSeconds == JSub(TotalDuration(running), ValueOf(p.lastMinutes) * 60)
             Keep(segment) == JGe(JNum(segment.start), startSeconds)
         IN  SelectSeq(running, Keep)
    ELSE running

\* lines 57-60: the last N minutes
LastMinutesStage(running, p, totalDuration) ==
    IF p.lastMinutes # Undefined
    THEN LET startSeconds == JSub(totalDuration, ValueOf(p.lastMinutes) * 60)
             Keep(segment) == JGe(JNum(segment.start), startSeconds)
         IN  SelectSeq(running, Keep)
    ELSE running

\* FirstMinutesStage with the test for a supplied value inverted: undefined * 60
\* is NaN and no segment passes
FirstMinutesStageInverted(running, p) ==
    IF p.firstMinutes = Undefined THEN <<>> ELSE running

\* FirstMinutesStage with the bound excluded
FirstMinutesStageStrict(running, p) ==
    IF p.firstMinutes # Undefined
    THEN LET endSeconds == ValueOf(p.firstMinutes) * 60
             Keep(segment) == segment.start < endSeconds
         IN  SelectSeq(running, Keep)
    ELSE running

\* lines 63-66: the first N minutes
FirstMinutesStage(running, p) ==
    IF p.firstMinutes # Undefined
    THEN LET endSeconds == ValueOf(p.firstMinutes) * 60
             Keep(segment) == segment.start <= endSeconds
         IN  SelectSeq(running, Keep)
    ELSE running

\* IndexStage taking endIndex as an exclusive end
IndexStageExclusiveEnd(running, p) ==
    IF p.startIndex # Undefined \/ p.endIndex # Undefined
    THEN LET startIdx == IF p.startIndex # Undefined /\ ValueOf(p.startIndex) # 0
                         THEN ValueOf(p.startIndex) ELSE 0
             endIdx == IF p.endIndex # Undefined
                       THEN ValueOf(p.endIndex) ELSE Len(running)
         IN  Slice(running, startIdx, endIdx)
    ELSE running

\* lines 69-73: the positional window
IndexStage(running, p) ==
    IF p.startIndex # Undefined \/ p.endIndex # Undefined
    THEN LET \* params.startIndex || 0
             startIdx == IF p.startIndex # Undefined /\ ValueOf(p.startIndex) # 0
                         THEN ValueOf(p.startIndex) ELSE 0
             endIdx == IF p.endIndex # Undefined
                       THEN ValueOf(p.endIndex) + 1 ELSE Len(running)
         IN  Slice(running, startIdx, endIdx)
    ELSE running

\* MaxSegmentsStage cutting one element too late
MaxSegmentsStageOffByOne(running, p) ==
    IF p.maxSegments # Undefined /\ Len(running) > ValueOf(p.maxSegments)
    THEN Slice(running, 0, ValueOf(p.maxSegments) + 1)
    ELSE running

\* MaxSegmentsStage keeping the last elements instead of the first
MaxSegmentsStageTail(running, p) ==
    IF p.maxSegments # Undefined /\ Len(running) > ValueOf(p.maxSegments)
    THEN SubSeq(running, Len(running) - ValueOf(p.maxSegments) + 1, Len(running))
    ELSE running

\* lines 76-78: the cap on the count
MaxSegmentsStage(running, p) ==
    IF p.maxSegments # Undefined /\ Len(running) > ValueOf(p.maxSegments)
    THEN Slice(running, 0, ValueOf(p.maxSegments))
    ELSE running

\* FilterStages with the positional window taken from the original input
FilterStagesWindowOnInput(segments, p) ==
    LET copy == segments
        totalDuration == TotalDuration(segments)
        afterTime == TimeWindowStage(copy, p, totalDuration)
        afterLast == LastMinutesStage(afterTime, p, totalDuration)
        afterFirst == FirstMinutesStage(afterLast, p)
        afterIndex == IndexStage(copy, p)
        afterMax == MaxSegmentsStage(afterIndex, p)
    IN  [copy |-> copy, time |-> afterTime, last |-> afterLast,
         first |-> afterFirst, index |-> afterIndex, max |-> afterMax]

\* The successive values of the local variable `filtered`, one per stage.
FilterStages(segments, p) ==
    LET copy == segments
        totalDuration == TotalDuration(segments)
        afterTime == TimeWindowStage(copy, p, totalDuration)
        afterLast == LastMinutesStage(afterTime, p, totalDuration)
        afterFirst == FirstMinutesStage(afterLast, p)
        afterIndex == IndexStage(afterFirst, p)
        afterMax == MaxSegmentsStage(afterIndex, p)
    IN  [copy |-> copy, time |-> afterTime, last |-> afterLast,
         first |-> afterFirst, index |-> afterIndex, max |-> afterMax]

filterTranscriptSegments(segments, p) == FilterStages(segments, p).max

(***************************************************************************)
(* Inputs.                                                                 *)
(***************************************************************************)
Seg(start, duration) == [start |-> start, duration |-> duration]

SegmentStarts == {30 * i : i \in 0..MaxTick}
SegmentDurations == {30, 60}
Segments == [start : SegmentStarts, duration : SegmentDurations]

\* The caption source delivers the cues in time order.
InTimeOrder(segments) ==
    \A i \in 1..(Len(segments) - 1) : segments[i].start < segments[i + 1].start

\* Ten segments of 60 seconds each, starting at 0, 60, ..., 540.
TenMinutes == [i \in 1..10 |-> Seg(60 * (i - 1), 60)]

Transcripts ==
    {s \in UNION {[1..n -> Segments] : n \in 0..MaxLen} : InTimeOrder(s)}
    \cup {TenMinutes}

Optional(values) == {Undefined} \cup {Some(n) : n \in values}

NoCriteria ==
    [startTime |-> TUndef, endTime |-> TUndef,
     lastMinutes |-> Undefined, firstMinutes |-> Undefined,
     maxSegments |-> Undefined, startIndex |-> Undefined, endIndex |-> Undefined]

\* {lastMinutes: 3}
LastThreeMinutes == [NoCriteria EXCEPT !.lastMinutes = Some(3)]
\* {firstMinutes: 5, maxSegments: 3}
FirstFiveCapThree ==
    [NoCriteria EXCEPT !.firstMinutes = Some(5), !.maxSegments = Some(3)]

\* {startTime: 60, endTime: 30}
EndBeforeStart == [NoCriteria EXCEPT !.startTime = TNum(60), !.endTime = TNum(30)]

StartTimes == {TUndef, TNum(30), TStr(<<"a", ":", "b">>)}
EndTimes == {TUndef, TStr(<<"1", ":", "0", "0">>)}

\* Criteria whose indices and count are zero-based positions and counts.
Criteria ==
    [startTime : StartTimes, endTime : EndTimes,
     lastMinutes : Optional({1, 2}), firstMinutes : Optional({1}),
     maxSegments : Optional(0..MaxSeg),
     startIndex : Optional(0..MaxIdx), endIndex : Optional(0..MaxIdx)]
    \cup {LastThreeMinutes, FirstFiveCapThree, EndBeforeStart}

\* Criteria with any integer as index or count.
IntCriteria ==
    [startTime : {TUndef, TNum(30)}, endTime : {TUndef},
     lastMinutes : Optional({1}), firstMinutes : {Undefined},
     maxSegments : Optional((-1)..MaxSeg),
     startIndex : Optional((-MaxIdx - 1)..MaxIdx),
     endIndex : Optional((-MaxIdx - 1)..MaxIdx)]

NoStages ==
    [copy |-> <<>>, time |-> <<>>, last |-> <<>>, first |-> <<>>,
     index |-> <<>>, max |-> <<>>]

(***************************************************************************)
(* TranscriptService.getTranscript: the cues of the caption source, the    *)
(* metadata and the two ways the call ends.                                *)
(*   - a cue of the caption source is [text, start, dur], start and dur     *)
(*     being decimal strings;                                              *)
(*   - the answer of the caption source is [k, cues] with k = "list",      *)
(*     k = "null" (nothing) or k = "rejected" (the promise rejects);       *)
(*   - a message is the sequence of the pieces of its template string.     *)
(***************************************************************************)
\* fullTranscript's element: text: subtitle.text,
\* start: Number(subtitle.start), duration: Number(subtitle.dur)
ToSegment(subtitle) ==
    [text |-> subtitle.text,
     start |-> NumberOf(subtitle.start).v, duration |-> NumberOf(subtitle.dur).v]

\* subtitles.map(subtitle => ({ ... }))
FullTranscript(subtitles) ==
    [i \in 1..Len(subtitles) |-> ToSegment(subtitles[i])]

\* Math.min(...segments.map(s => s.start)) of a non-empty list
MinStart(segments) ==
    CHOOSE m \in {segments[i].start : i \in 1..Len(segments)} :
        \A i \in 1..Len(segments) : m <= segments[i].start

RECURSIVE SumOfDurations(_)
SumOfDurations(segments) ==
    IF segments = <<>> THEN 0
    ELSE Head(segments).duration + SumOfDurations(Tail(segments))

\* filteredDuration as the sum of the kept durations
FilteredDurationSum(filteredTranscript) ==
    JNum(SumOfDurations(filteredTranscript))

\* filteredTranscript.length > 0 ? Math.max(...) - Math.min(...) : 0
FilteredDuration(filteredTranscript) ==
    IF Len(filteredTranscript) > 0
    THEN JSub(TotalDuration(filteredTranscript), MinStart(filteredTranscript))
    ELSE JNum(0)

\* appliedFilters echoing the seconds the time criteria were parsed to
AppliedFiltersNormalized(p) ==
    [startTime |-> IF p.startTime.k = "undef" THEN TUndef
                   ELSE LET secs == parseTimeToSeconds(p.startTime)
                        IN  [k |-> secs.k, v |-> secs.v, s |-> <<>>],
     endTime |-> p.endTime,
     lastMinutes |-> p.lastMinutes, firstMinutes |-> p.firstMinutes,
     maxSegments |-> p.maxSegments,
     startIndex |-> p.startIndex, endIndex |-> p.endIndex]

\* appliedFilters: { startTime: params.startTime, ... }
AppliedFilters(p) ==
    [startTime |-> p.startTime, endTime |-> p.endTime,
     lastMinutes |-> p.lastMinutes, firstMinutes |-> p.firstMinutes,
     maxSegments |-> p.maxSegments,
     startIndex |-> p.startIndex, endIndex |-> p.endIndex]

Source == "youtube-caption-extractor"

\* metadata whose totals are taken over the filtered list
MetadataOfFiltered(fullTranscript, filteredTranscript, p) ==
    [segmentCount |-> Len(filteredTranscript),
     totalSegments |-> Len(filteredTranscript),
     source |-> Source,
     totalDuration |-> TotalDuration(filteredTranscript),
     filteredDuration |-> FilteredDuration(filteredTranscript),
     appliedFilters |-> AppliedFilters(p)]

\* the metadata object of the result
Metadata(fullTranscript, filteredTranscript, p) ==
    [segmentCount |-> Len(filteredTranscript),
     totalSegments |-> Len(fullTranscript),
     source |-> Source,
     totalDuration |-> TotalDuration(fullTranscript),
     filteredDuration |-> FilteredDuration(filteredTranscript),
     appliedFilters |-> AppliedFilters(p)]

\* no metadata object was built
NoMetadata ==
    [segmentCount |-> 0, totalSegments |-> 0, source |-> "",
     totalDuration |-> JNum(0), filteredDuration |-> JNum(0),
     appliedFilters |-> NoCriteria]

\* language = process.env.YOUTUBE_TRANSCRIPT_LANG || 'en', neither supplied
DefaultLanguage == "en"

\* `No transcript found for video ${videoId} in language ${language}`
NoTranscriptFound(videoId, language) ==
    <<"No transcript found for video ", videoId, " in language ", language>>

\* `Failed to get transcript: ${error.message}`
FailedToGetTranscript(message) == <<"Failed to get transcript: ">> \o message

\* the message of the error the caption source rejects with
SourceFailure == <<"caption source unavailable">>

NoAnswer == [k |-> "none", cues |-> <<>>]
NullAnswer == [k |-> "null", cues |-> <<>>]
ListAnswer(cues) == [k |-> "list", cues |-> cues]
Rejection == [k |-> "rejected", cues |-> <<>>]

NoOutcome ==
    [kind |-> "none", videoId |-> "", language |-> "", transcript |-> <<>>,
     metadata |-> NoMetadata, message |-> <<>>]
\* return { videoId, language, transcript, metadata }
Returned(videoId, language, filteredTranscript, metadata) ==
    [kind |-> "result", videoId |-> videoId, language |-> language,
     transcript |-> filteredTranscript, metadata |-> metadata, message |-> <<>>]
\* throw new Error(message)
Thrown(message) ==
    [kind |-> "error", videoId |-> "", language |-> "", transcript |-> <<>>,
     metadata |-> NoMetadata, message |-> message]

\* the guard treating only a missing list as "no transcript"
NoSubtitlesMissingOnly(answer) == answer.k = "null"

\* !subtitles || subtitles.length === 0
NoSubtitles(answer) == answer.k = "null" \/ Len(answer.cues) = 0

\* The part of getTranscript after the await, for a fulfilled fetch: the
\* outcome and, in order, the steps that ran.
AfterFetch(videoId, language, answer, p) ==
    IF NoSubtitles(answer)
    THEN [outcome |->
              Thrown(FailedToGetTranscript(NoTranscriptFound(videoId, language))),
          steps |-> <<"guard", "catch">>]
    ELSE LET fullTranscript == FullTranscript(answer.cues)
             filteredTranscript == filterTranscriptSegments(fullTranscript, p)
         IN  [outcome |->
                  Returned(videoId, language, filteredTranscript,
                           Metadata(fullTranscript, filteredTranscript, p)),
              steps |-> <<"guard", "convert", "filter", "metadata">>]

\* The catch block for a rejected fetch.
AfterRejection ==
    [outcome |-> Thrown(FailedToGetTranscript(SourceFailure)),
     steps |-> <<"catch">>]

(***************************************************************************)
(* The filter pipeline applied to one (transcript, params) pair.           *)
(***************************************************************************)
NoPaging == [size |-> 0, next |-> 0, collected |-> <<>>]

\* the parts of the state a specification does not use
ParseAtRest == timeArg = TUndef /\ timeRet = NaN
ServiceAtRest == initialized = FALSE /\ calls = <<>>
PagingAtRest == paging = NoPaging
ViewsAtRest == views = <<>>
OAuthAtRest == oauth = <<>> /\ playlist = <<>>
ServerAtRest == mcp = <<>> /\ http = <<>>
JobsAtRest == jobs = <<>>
ServicesAtRest == ViewsAtRest /\ OAuthAtRest /\ ServerAtRest /\ JobsAtRest
FilterAtRest ==
    /\ transcript = <<>>
    /\ params = NoCriteria
    /\ filtered = NoStages
    /\ result = <<>>
    /\ summary = NoMetadata

InitFilterOn(criteria) ==
    /\ transcript \in Transcripts
    /\ params \in criteria
    /\ filtered = NoStages
    /\ result = <<>>
    /\ summary = NoMetadata
    /\ pc = "call"
    /\ ParseAtRest
    /\ ServiceAtRest
    /\ PagingAtRest
    /\ ServicesAtRest

\* the caller's array after a call that lets `filtered` refer to it
\* (let filtered = transcript) and caps it in place
\* (filtered.length = params.maxSegments)
TranscriptAfterCallCappedInPlace(segments, p) ==
    IF \/ p.startTime.k # "undef" \/ p.endTime.k # "undef"
       \/ p.lastMinutes # Undefined \/ p.firstMinutes # Undefined
       \/ p.startIndex # Undefined \/ p.endIndex # Undefined
    THEN segments
    ELSE MaxSegmentsStage(segments, p)

\* The caller's array after the call: `filtered` starts as a copy
\* ([...transcript]) and every stage assigns a new array to it (filter, slice),
\* so no statement writes the array that was passed.
TranscriptAfterCall(segments, p) == segments

\* One call of filterTranscriptSegments(transcript, params).
Filter ==
    /\ pc = "call"
    /\ filtered' = FilterStages(transcript, params)
    /\ result' = filterTranscriptSegments(transcript, params)
    /\ transcript' = TranscriptAfterCall(transcript, params)
    /\ pc' = "done"
    /\ UNCHANGED <<params, timeArg, timeRet, summary, initialized, calls, paging>>
    /\ UNCHANGED serviceVars

\* The filter and the metadata statements of getTranscript applied to
\* fullTranscript = transcript.
FilterAndSummarize ==
    /\ pc = "call"
    /\ filtered' = FilterStages(transcript, params)
    /\ result' = filterTranscriptSegments(transcript, params)
    /\ summary' =
           Metadata(transcript, filterTranscriptSegments(transcript, params), params)
    /\ pc' = "done"
    /\ UNCHANGED <<transcript, params, timeArg, timeRet, initialized, calls, paging>>
    /\ UNCHANGED serviceVars

SpecEngine == InitFilterOn(IntCriteria) /\ [][FilterAndSummarize]_vars

InitFilter == InitFilterOn(Criteria)
SpecFilter == InitFilter /\ [][Filter]_vars

InitFilterInt == InitFilterOn(IntCriteria)
SpecFilterInt == InitFilterInt /\ [][Filter]_vars

(***************************************************************************)
(* The time normalizer applied to one argument.                            *)
(***************************************************************************)
Alphabet == {"0", "1", "3", ":", "a"}
Strings == UNION {[1..n -> Alphabet] : n \in 0..MaxStrLen}

OneThirty == <<"1", ":", "3", "0">>
OneTwoThree == <<"1", ":", "0", "2", ":", "0", "3">>
Bogus == <<"b", "o", "g", "u", "s">>
LettersOnly == <<"a", ":", "b">>

TimeArguments ==
    {TNum(n) : n \in (-2..2) \cup {45}}
    \cup {TStr(str) : str \in Strings \cup {OneThirty, OneTwoThree, Bogus, LettersOnly}}

InitParse ==
    /\ timeArg \in TimeArguments
    /\ timeRet = NaN
    /\ pc = "call"
    /\ FilterAtRest
    /\ ServiceAtRest
    /\ PagingAtRest
    /\ ServicesAtRest

\* One call of parseTimeToSeconds(timeArg).
Parse ==
    /\ pc = "call"
    /\ timeRet' = parseTimeToSeconds(timeArg)
    /\ pc' = "done"
    /\ UNCHANGED <<timeArg, transcript, params, filtered, result, summary,
                   initialized, calls, paging>>
    /\ UNCHANGED serviceVars

SpecParse == InitParse /\ [][Parse]_vars

(***************************************************************************)
(* getTranscript calls on one TranscriptService instance.  A call runs to  *)
(* its await (Call), is suspended while the caption source works, and      *)
(* runs from the await to its end in one turn of the event loop when the   *)
(* fetch is fulfilled (Resolve) or rejected (Reject).                      *)
(***************************************************************************)
DigitChar(d) == CHOOSE c \in Digits : DigitValue(c) = d

\* the decimal string of a natural number
RECURSIVE ToDigits(_)
ToDigits(n) ==
    IF n < 10 THEN <<DigitChar(n)>>
    ELSE ToDigits(n \div 10) \o <<DigitChar(n % 10)>>

\* the cues the caption source delivers for the given segments, silent ones
CuesOf(segments) ==
    [i \in 1..Len(segments) |->
        [text |-> <<>>,
         start |-> ToDigits(segments[i].start), dur |-> ToDigits(segments[i].duration)]]

Answers == {NullAnswer} \cup {ListAnswer(CuesOf(s)) : s \in Transcripts}

\* a transcript with a silent gap between its two cues
TwoWithGap == <<Seg(0, 30), Seg(90, 30)>>

FewAnswers ==
    {NullAnswer, ListAnswer(<<>>), ListAnswer(CuesOf(TwoWithGap)),
     ListAnswer(CuesOf(TenMinutes))}

\* {startIndex: 1, maxSegments: 1}
SecondSegmentOnly ==
    [NoCriteria EXCEPT !.startIndex = Some(1), !.maxSegments = Some(1)]
\* {startTime: "1:30"}
FromOneThirty == [NoCriteria EXCEPT !.startTime = TStr(<<"1", ":", "3", "0">>)]

\* every subset of the seven criteria, one value or two for each
CallCriteria ==
    [startTime : StartTimes, endTime : EndTimes,
     lastMinutes : Optional({1}), firstMinutes : Optional({1}),
     maxSegments : Optional({1}),
     startIndex : Optional({1}), endIndex : Optional({1})]
    \cup {LastThreeMinutes, FromOneThirty}

FewCriteria == {NoCriteria, SecondSegmentOnly, FromOneThirty}

VideoIds == {"v1", "v2"}

IdleCall ==
    [pc |-> "idle", videoId |-> "", language |-> "", params |-> NoCriteria,
     answer |-> NoAnswer, outcome |-> NoOutcome, steps |-> <<>>, during |-> {}]

\* if (this.initialized) return; this.initialized = true;
Initialize(flag) == IF flag THEN flag ELSE TRUE

\* the params a resumed call reads, were they kept in a field of the instance
\* that a later call overwrites while this one is suspended
ParamsOfInstanceField(self) ==
    IF \E other \in DOMAIN calls \ {self} : calls[other].pc = "awaiting"
    THEN calls[CHOOSE other \in DOMAIN calls \ {self} :
                  calls[other].pc = "awaiting"].params
    ELSE calls[self].params

\* the params a resumed call reads: the argument of that call
ParamsOf(self) == calls[self].params

\* getTranscript up to the await: destructuring, initialize(), getSubtitles()
Call(self, videoIds, criteria) ==
    /\ calls[self].pc = "idle"
    /\ \E v \in videoIds, p \in criteria :
          calls' = [calls EXCEPT ![self] =
                       [@ EXCEPT !.pc = "awaiting", !.videoId = v,
                                 !.language = DefaultLanguage, !.params = p,
                                 !.steps = <<"initialize", "fetch">>]]
    /\ initialized' = Initialize(initialized)
    /\ UNCHANGED <<transcript, params, filtered, result, pc, timeArg, timeRet,
                   summary, paging>>
    /\ UNCHANGED serviceVars

\* getTranscript from the await to its end, the fetch fulfilled with `answer`
Resolve(self, answers) ==
    /\ calls[self].pc = "awaiting"
    /\ \E answer \in answers :
          LET after == AfterFetch(calls[self].videoId, calls[self].language,
                                  answer, ParamsOf(self))
          IN  calls' = [calls EXCEPT ![self] =
                  [@ EXCEPT !.pc = IF after.outcome.kind = "result"
                                   THEN "returned" ELSE "thrown",
                            !.answer = answer,
                            !.outcome = after.outcome,
                            !.steps = @ \o after.steps,
                            !.during = {c \in DOMAIN calls \ {self} :
                                           calls[c].pc = "awaiting"}]]
    /\ UNCHANGED <<transcript, params, filtered, result, pc, timeArg, timeRet,
                   summary, initialized, paging>>
    /\ UNCHANGED serviceVars

\* getTranscript from the await to its end, the fetch rejected
Reject(self) ==
    /\ calls[self].pc = "awaiting"
    /\ calls' = [calls EXCEPT ![self] =
                    [@ EXCEPT !.pc = "thrown", !.answer = Rejection,
                              !.outcome = AfterRejection.outcome,
                              !.steps = @ \o AfterRejection.steps,
                              !.during = {c \in DOMAIN calls \ {self} :
                                             calls[c].pc = "awaiting"}]]
    /\ UNCHANGED <<transcript, params, filtered, result, pc, timeArg, timeRet,
                   summary, initialized, paging>>
    /\ UNCHANGED serviceVars

InitCalls(ids) ==
    /\ calls = [c \in ids |-> IdleCall]
    /\ initialized = FALSE
    /\ pc = "service"
    /\ FilterAtRest
    /\ ParseAtRest
    /\ PagingAtRest
    /\ ServicesAtRest

\* one call, every subset of the criteria, every transcript
InitGetTranscript == InitCalls({1})
NextGetTranscript ==
    \E self \in DOMAIN calls :
        \/ Call(self, {"v1"}, CallCriteria)
        \/ Resolve(self, Answers)
        \/ Reject(self)
SpecGetTranscript == InitGetTranscript /\ [][NextGetTranscript]_vars

\* two calls on the same instance, interleaved at their awaits
InitConcurrent == InitCalls({1, 2})
NextConcurrent ==
    \E self \in DOMAIN calls :
        \/ Call(self, VideoIds, FewCriteria)
        \/ Resolve(self, FewAnswers)
        \/ Reject(self)
SpecConcurrent == InitConcurrent /\ [][NextConcurrent]_vars

(***************************************************************************)
(* A client paging through a transcript with startIndex + maxSegments.     *)
(***************************************************************************)
\* largest enumerated page size
MaxPage == 3

\* {startIndex: index, maxSegments: k}
PageRequest(index, k) ==
    [NoCriteria EXCEPT !.startIndex = Some(index), !.maxSegments = Some(k)]

\* ceil(n / k)
PageCount(n, k) == (n + k - 1) \div k

InitPaging ==
    /\ transcript \in Transcripts
    /\ paging \in {[size |-> k, next |-> 0, collected |-> <<>>] : k \in 1..MaxPage}
    /\ params = NoCriteria
    /\ filtered = NoStages
    /\ result = <<>>
    /\ summary = NoMetadata
    /\ pc = "call"
    /\ ParseAtRest
    /\ ServiceAtRest
    /\ ServicesAtRest

\* the request for the next page and the call it makes
NextPage ==
    /\ pc = "call"
    /\ paging.next < PageCount(Len(transcript), paging.size)
    /\ LET request == PageRequest(paging.next * paging.size, paging.size)
           page == filterTranscriptSegments(transcript, request)
       IN  /\ params' = request
           /\ filtered' = FilterStages(transcript, request)
           /\ result' = page
           /\ paging' = [paging EXCEPT !.next = @ + 1, !.collected = @ \o page]
    /\ UNCHANGED <<transcript, pc, timeArg, timeRet, summary, initialized, calls>>
    /\ UNCHANGED serviceVars

\* a request whose startIndex is at or past the end, after the last page
PastTheEnd ==
    /\ pc = "call"
    /\ paging.next = PageCount(Len(transcript), paging.size)
    /\ \E index \in Len(transcript)..(Len(transcript) + MaxPage) :
          LET request == PageRequest(index, paging.size)
          IN  /\ params' = request
              /\ filtered' = FilterStages(transcript, request)
              /\ result' = filterTranscriptSegments(transcript, request)
    /\ pc' = "done"
    /\ UNCHANGED <<transcript, paging, timeArg, timeRet, summary, initialized, calls>>
    /\ UNCHANGED serviceVars

SpecPaging == InitPaging /\ [][NextPage \/ PastTheEnd]_vars

(***************************************************************************)
(* TranscriptService.searchTranscript.  The call runs to the await of the  *)
(* getTranscript call it makes (SearchCall), which itself is suspended at  *)
(* its caption fetch, and runs to its end when that fetch is fulfilled     *)
(* (SearchResolve) or rejected (SearchReject).                             *)
(***************************************************************************)
\* longest enumerated caption text and query
MaxText == 2

Letters == {"a", "A", "b"}
Texts == UNION {[1..n -> Letters] : n \in 0..MaxText}

\* String.prototype.toLowerCase on the letters of the model
LowerCaseLetter(c) == IF c = "A" THEN "a" ELSE c
ToLowerCase(str) == [i \in 1..Len(str) |-> LowerCaseLetter(str[i])]

\* String.prototype.includes
Includes(str, part) ==
    \E i \in 0..(Len(str) - Len(part)) : SubSeq(str, i + 1, i + Len(part)) = part

\* one or two cues with text, at 0 s and 30 s
SpokenCues ==
    {<<[text |-> t, start |-> <<"0">>, dur |-> <<"3", "0">>]>> : t \in Texts}
    \cup {<<[text |-> t, start |-> <<"0">>, dur |-> <<"3", "0">>],
            [text |-> u, start |-> <<"3", "0">>, dur |-> <<"3", "0">>]>> :
             t \in Texts, u \in Texts}

SpokenAnswers == {NullAnswer, ListAnswer(<<>>)} \cup {ListAnswer(c) : c \in SpokenCues}

\* the request handing the caller's cap on to getTranscript
FullTranscriptRequestCapped == [NoCriteria EXCEPT !.maxSegments = Some(1)]

\* this.getTranscript({ videoId, language }): no selection criteria
FullTranscriptRequest == NoCriteria

\* `Failed to search transcript: ${error.message}`
FailedToSearch(message) == <<"Failed to search transcript: ">> \o message

NoSearchOutcome ==
    [kind |-> "none", videoId |-> "", query |-> <<>>, language |-> "",
     matches |-> <<>>, totalMatches |-> 0, metadata |-> NoMetadata,
     message |-> <<>>]

\* item.text.toLowerCase().includes(query.toLowerCase())
IsMatch(item, query) == Includes(ToLowerCase(item.text), ToLowerCase(query))

\* searchTranscript after its await, given how the getTranscript call ended
AfterGetTranscript(videoId, query, language, inner) ==
    IF inner.kind = "error"
    THEN [NoSearchOutcome EXCEPT !.kind = "error",
                                 !.message = FailedToSearch(inner.message)]
    ELSE LET Matching(item) == IsMatch(item, query)
             matches == SelectSeq(inner.transcript, Matching)
         IN  [kind |-> "result", videoId |-> videoId, query |-> query,
              language |-> language, matches |-> matches,
              totalMatches |-> Len(matches), metadata |-> inner.metadata,
              message |-> <<>>]

IdleSearch ==
    [pc |-> "idle", videoId |-> "", query |-> <<>>, language |-> "",
     answer |-> NoAnswer, outcome |-> NoSearchOutcome]

\* searchTranscript up to the await inside getTranscript
SearchCall(self) ==
    /\ views[self].pc = "idle"
    /\ \E v \in VideoIds, q \in Texts :
          views' = [views EXCEPT ![self] =
                       [@ EXCEPT !.pc = "awaiting", !.videoId = v, !.query = q,
                                 !.language = DefaultLanguage]]
    /\ initialized' = Initialize(Initialize(initialized))
    /\ UNCHANGED <<transcript, params, filtered, result, pc, timeArg, timeRet,
                   summary, calls, paging>>
    /\ UNCHANGED <<oauth, playlist, mcp, http, jobs>>

\* the caption fetch is fulfilled: getTranscript and then searchTranscript
\* run to their ends
SearchResolve(self) ==
    /\ views[self].pc = "awaiting"
    /\ \E answer \in SpokenAnswers :
          views' = [views EXCEPT ![self] =
              [@ EXCEPT !.pc = "ended", !.answer = answer,
                        !.outcome =
                            AfterGetTranscript(
                                views[self].videoId, views[self].query,
                                views[self].language,
                                AfterFetch(views[self].videoId, views[self].language,
                                           answer, FullTranscriptRequest).outcome)]]
    /\ UNCHANGED engineVars
    /\ UNCHANGED <<oauth, playlist, mcp, http, jobs>>

\* the caption fetch is rejected
SearchReject(self) ==
    /\ views[self].pc = "awaiting"
    /\ views' = [views EXCEPT ![self] =
          [@ EXCEPT !.pc = "ended", !.answer = Rejection,
                    !.outcome =
                        AfterGetTranscript(
                            views[self].videoId, views[self].query,
                            views[self].language, AfterRejection.outcome)]]
    /\ UNCHANGED engineVars
    /\ UNCHANGED <<oauth, playlist, mcp, http, jobs>>

EngineAtRest ==
    /\ FilterAtRest /\ ParseAtRest /\ PagingAtRest
    /\ pc = "service"
    /\ calls = <<>>

InitSearch ==
    /\ views = [v \in {1} |-> IdleSearch]
    /\ initialized = FALSE
    /\ EngineAtRest
    /\ OAuthAtRest /\ ServerAtRest /\ JobsAtRest

NextSearch ==
    \E self \in DOMAIN views :
        SearchCall(self) \/ SearchResolve(self) \/ SearchReject(self)

SpecSearch == InitSearch /\ [][NextSearch]_vars

(***************************************************************************)
(* TranscriptService.getTimestampedTranscript.                             *)
(***************************************************************************)
\* str.padStart(2, '0')
PadStart2(str) == IF Len(str) < 2 THEN <<"0">> \o str ELSE str

\* the timestamp written with the total minutes in the H:MM:SS form
FormatTimestampTotalMinutes(seconds) ==
    LET minutes == seconds \div 60
        remainingSeconds == seconds % 60
        hours == minutes \div 60
        remainingMinutes == minutes % 60
    IN  IF hours > 0
        THEN ToDigits(hours) \o <<":">> \o PadStart2(ToDigits(minutes))
                 \o <<":">> \o PadStart2(ToDigits(remainingSeconds))
        ELSE ToDigits(remainingMinutes) \o <<":">>
                 \o PadStart2(ToDigits(remainingSeconds))

\* formattedTime for item.start = seconds, a whole number of seconds:
\* Math.floor(seconds / 60), Math.floor(seconds % 60), Math.floor(minutes / 60),
\* minutes % 60
FormatTimestamp(seconds) ==
    LET minutes == seconds \div 60
        remainingSeconds == seconds % 60
        hours == minutes \div 60
        remainingMinutes == minutes % 60
    IN  IF hours > 0
        THEN ToDigits(hours) \o <<":">> \o PadStart2(ToDigits(remainingMinutes))
                 \o <<":">> \o PadStart2(ToDigits(remainingSeconds))
        ELSE ToDigits(remainingMinutes) \o <<":">>
                 \o PadStart2(ToDigits(remainingSeconds))

\* the callback of transcript.map
Timestamped(item) ==
    [timestamp |-> FormatTimestamp(item.start), text |-> item.text,
     startTimeSeconds |-> item.start, durationSeconds |-> item.duration,
     startTimeMs |-> item.start * 1000, durationMs |-> item.duration * 1000]

\* { ...transcriptResult.metadata, format: 'timestamped' }
WithFormat(metadata) ==
    [f \in DOMAIN metadata \cup {"format"} |->
        IF f = "format" THEN "timestamped" ELSE metadata[f]]

\* `Failed to get timestamped transcript: ${error.message}`
FailedToTimestamp(message) ==
    <<"Failed to get timestamped transcript: ">> \o message

NoTimestampedOutcome ==
    [kind |-> "none", videoId |-> "", language |-> "",
     timestampedTranscript |-> <<>>, metadata |-> WithFormat(NoMetadata),
     message |-> <<>>]

\* getTimestampedTranscript after its await, given how getTranscript ended
AfterGetTranscriptStamp(videoId, language, inner) ==
    IF inner.kind = "error"
    THEN [NoTimestampedOutcome EXCEPT !.kind = "error",
                                      !.message = FailedToTimestamp(inner.message)]
    ELSE [kind |-> "result", videoId |-> videoId, language |-> language,
          timestampedTranscript |->
              [i \in 1..Len(inner.transcript) |-> Timestamped(inner.transcript[i])],
          metadata |-> WithFormat(inner.metadata), message |-> <<>>]

\* starts on both sides of a minute and of an hour
ClockStarts == {0, 59, 60, 605, 3599, 3600, 3661, 7325}

ClockCue(start) == [text |-> <<>>, start |-> ToDigits(start), dur |-> <<"3", "0">>]

ClockCues ==
    {<<ClockCue(a)>> : a \in ClockStarts}
    \cup {<<ClockCue(pair[1]), ClockCue(pair[2])>> :
             pair \in {q \in ClockStarts \X ClockStarts : q[1] < q[2]}}

ClockAnswers == {NullAnswer, ListAnswer(<<>>)} \cup {ListAnswer(c) : c \in ClockCues}

IdleTimestamped ==
    [pc |-> "idle", videoId |-> "", language |-> "", params |-> NoCriteria,
     answer |-> NoAnswer, outcome |-> NoTimestampedOutcome]

\* getTimestampedTranscript up to the await inside getTranscript
TimestampedCall(self) ==
    /\ views[self].pc = "idle"
    /\ \E v \in VideoIds, p \in FewCriteria :
          views' = [views EXCEPT ![self] =
                       [@ EXCEPT !.pc = "awaiting", !.videoId = v, !.params = p,
                                 !.language = DefaultLanguage]]
    /\ initialized' = Initialize(Initialize(initialized))
    /\ UNCHANGED <<transcript, params, filtered, result, pc, timeArg, timeRet,
                   summary, calls, paging>>
    /\ UNCHANGED <<oauth, playlist, mcp, http, jobs>>

\* the caption fetch is fulfilled
TimestampedResolve(self) ==
    /\ views[self].pc = "awaiting"
    /\ \E answer \in ClockAnswers :
          views' = [views EXCEPT ![self] =
              [@ EXCEPT !.pc = "ended", !.answer = answer,
                        !.outcome =
                            AfterGetTranscriptStamp(
                                views[self].videoId, views[self].language,
                                AfterFetch(views[self].videoId, views[self].language,
                                           answer, views[self].params).outcome)]]
    /\ UNCHANGED engineVars
    /\ UNCHANGED <<oauth, playlist, mcp, http, jobs>>

\* the caption fetch is rejected
TimestampedReject(self) ==
    /\ views[self].pc = "awaiting"
    /\ views' = [views EXCEPT ![self] =
          [@ EXCEPT !.pc = "ended", !.answer = Rejection,
                    !.outcome =
                        AfterGetTranscriptStamp(
                            views[self].videoId, views[self].language,
                            AfterRejection.outcome)]]
    /\ UNCHANGED engineVars
    /\ UNCHANGED <<oauth, playlist, mcp, http, jobs>>

InitTimestamped ==
    /\ views = [v \in {1} |-> IdleTimestamped]
    /\ initialized = FALSE
    /\ EngineAtRest
    /\ OAuthAtRest /\ ServerAtRest /\ JobsAtRest

NextTimestamped ==
    \E self \in DOMAIN views :
        TimestampedCall(self) \/ TimestampedResolve(self) \/ TimestampedReject(self)

SpecTimestamped == InitTimestamped /\ [][NextTimestamped]_vars

(***************************************************************************)
(* SharedGoogleOAuthClient (src/unnamed/part_000).                         *)
(*   - a scope is the sequence of its pieces: the URL of the API and,      *)
(*     where it has one, the suffix after it (".readonly"); a scope list   *)
(*     is the concatenation of its scopes with " " between them;           *)
(*   - a token is [k, id, scope]: k = "null" for no token, scope = <<>>    *)
(*     for a token without scope field and <<list>> otherwise;             *)
(*   - oauth2Client is 0 for null and n for the n-th OAuth2Client the      *)
(*     instance constructed; credentials[n] is what setCredentials put on  *)
(*     that client;                                                        *)
(*   - an operation is suspended at pc = "credentials" (reading the        *)
(*     credentials file), "tokens" (reading the token file), "getToken"    *)
(*     (exchanging the code) and "saving" (writing the token file).        *)
(***************************************************************************)
\* str.split(sep)
RECURSIVE SplitOn(_, _)
SplitOn(str, sep) ==
    IF str = <<>> THEN << <<>> >>
    ELSE LET rest == SplitOn(Tail(str), sep)
         IN  IF Head(str) = sep THEN << <<>> >> \o rest
             ELSE << <<Head(str)>> \o Head(rest) >> \o Tail(rest)

\* scopes.join(' ')
RECURSIVE JoinWithSpace(_)
JoinWithSpace(scopes) ==
    IF scopes = <<>> THEN <<>>
    ELSE IF Len(scopes) = 1 THEN scopes[1]
    ELSE scopes[1] \o <<" ">> \o JoinWithSpace(Tail(scopes))

ScopeYoutube == <<"https://www.googleapis.com/auth/youtube">>
ScopeYoutubeForceSsl == <<"https://www.googleapis.com/auth/youtube", ".force-ssl">>
ScopeYoutubeReadonly == <<"https://www.googleapis.com/auth/youtube", ".readonly">>
ScopeCalendar == <<"https://www.googleapis.com/auth/calendar">>
ScopeCalendarEvents == <<"https://www.googleapis.com/auth/calendar", ".events">>

CALENDAR_SCOPES == <<ScopeCalendar, ScopeCalendarEvents>>
YOUTUBE_SCOPES == <<ScopeYoutube, ScopeYoutubeForceSsl, ScopeYoutubeReadonly>>

SERVICE_SCOPES(service) ==
    IF service = "calendar" THEN CALENDAR_SCOPES ELSE YOUTUBE_SCOPES

GoogleServices == {"youtube", "calendar"}

NoToken == [k |-> "null", id |-> "", scope |-> <<>>]
Token(id, scopes) == [k |-> "token", id |-> id, scope |-> <<JoinWithSpace(scopes)>>]
TokenWithoutScope(id) == [k |-> "token", id |-> id, scope |-> <<>>]

\* this.tokens.scope?.split(' ') || []
TokenScopes(token) ==
    IF token.scope = <<>> \/ token.scope[1] = <<>> THEN <<>>
    ELSE SplitOn(token.scope[1], " ")

\* requiredScopes.every(scope => tokenScopes.some(t => t.includes(scope)))
HasAllScopes(token, service) ==
    LET requiredScopes == SERVICE_SCOPES(service)
        tokenScopes == TokenScopes(token)
    IN  \A i \in 1..Len(requiredScopes) :
            \E j \in 1..Len(tokenScopes) : Includes(tokenScopes[j], requiredScopes[i])

NoOAuthOutcome ==
    [kind |-> "none", client |-> 0, value |-> FALSE, token |-> NoToken,
     message |-> <<>>, checked |-> NoToken]
OAuthError(message) == [NoOAuthOutcome EXCEPT !.kind = "error", !.message = message]

\* getAuthenticatedClient after `await this.initialize()`
AuthenticatedClient(st, service) ==
    IF st.oauth2Client = 0
    THEN OAuthError(<<"OAuth client not initialized">>)
    ELSE IF st.tokens.k = "null"
    THEN OAuthError(<<"No OAuth tokens available. Please authenticate first using the auth flow for ",
                      service, " service.">>)
    ELSE IF ~HasAllScopes(st.tokens, service)
    THEN [OAuthError(<<"OAuth tokens missing required scopes for ", service>>)
             EXCEPT !.checked = st.tokens]
    ELSE [NoOAuthOutcome EXCEPT !.kind = "client", !.client = st.oauth2Client,
                                !.checked = st.tokens]

\* hasValidTokens: true when getAuthenticatedClient returned, false when it threw
ValidTokens(attempt) ==
    [NoOAuthOutcome EXCEPT !.kind = "boolean", !.value = (attempt.kind = "client"),
                           !.checked = attempt.checked]

\* `Failed to initialize OAuth client: ${error.message}`
FailedToInitialize == <<"Failed to initialize OAuth client: ", "credentials file">>

IdleOp ==
    [kind |-> "", service |-> "", owner |-> 0, pc |-> "idle",
     snapshot |-> NoToken, pending |-> NoToken, outcome |-> NoOAuthOutcome]

Ending(op, outcome) == [op EXCEPT !.pc = "ended", !.outcome = outcome]

\* the operation `o` after its `await this.initialize()` returned
AfterInitialize(st, o) ==
    LET op == st.ops[o]
    IN  CASE op.kind = "getAuthenticatedClient" ->
                 [st EXCEPT !.ops[o] = Ending(op, AuthenticatedClient(st, op.service))]
          [] op.kind = "hasValidTokens" ->
                 [st EXCEPT !.ops[o] =
                     Ending(op, ValidTokens(AuthenticatedClient(st, op.service)))]
          [] op.kind = "getAuthUrl" ->
                 [st EXCEPT !.ops[o] =
                     Ending(op, IF st.oauth2Client = 0
                                THEN OAuthError(<<"OAuth client not initialized">>)
                                ELSE [NoOAuthOutcome EXCEPT !.kind = "url",
                                                            !.client = st.oauth2Client])]
          [] op.kind = "exchangeCodeForTokens" ->
                 IF st.oauth2Client = 0
                 THEN [st EXCEPT !.ops[o] =
                          Ending(op, OAuthError(<<"OAuth client not initialized">>))]
                 ELSE [st EXCEPT !.ops[o].pc = "getToken"]

\* the operation `o` after its `await this.initialize()` threw
AfterInitializeFailed(st, o) ==
    LET op == st.ops[o]
    IN  [st EXCEPT !.ops[o] =
            Ending(op, IF op.kind = "hasValidTokens"
                       THEN ValidTokens(OAuthError(FailedToInitialize))
                       ELSE OAuthError(FailedToInitialize))]

\* a call of `kind` up to its first suspension: initialize returns at once
\* when this.oauth2Client is set, and starts reading the credentials file
\* otherwise
Begin(st, o, kind, service, owner) ==
    LET started == [st EXCEPT !.ops[o] =
                       [IdleOp EXCEPT !.kind = kind, !.service = service,
                                      !.owner = owner, !.pc = "credentials"]]
    IN  IF st.oauth2Client # 0 THEN AfterInitialize(started, o) ELSE started

\* loadCredentials returned: new OAuth2Client(...), then loadTokens starts
\* reading the token file
CredentialsLoaded(st, o) ==
    [st EXCEPT !.oauth2Client = st.created + 1,
               !.created = @ + 1,
               !.credentials = Append(@, NoToken),
               !.credentialLoads = @ + 1,
               !.ops[o].pc = "tokens",
               !.ops[o].snapshot = st.file]

\* loadTokens returned with `content`: this.tokens = content, setCredentials
\* on the current client when there is a token, and the operation goes on
TokensLoaded(st, o, content) ==
    AfterInitialize(
        [st EXCEPT !.tokens = content,
                   !.tokenLoads = @ + 1,
                   !.credentials =
                       IF content.k = "token"
                       THEN [@ EXCEPT ![st.oauth2Client] = content] ELSE @,
                   !.reloadedAfterExchange =
                       @ \/ (st.exchanged.k = "token" /\ content # st.tokens)],
        o)

\* getToken returned `granted`: this.tokens = tokens, setCredentials, and
\* saveTokens starts writing the token file
TokenGranted(st, o, granted) ==
    [st EXCEPT !.tokens = granted,
               !.credentials = [@ EXCEPT ![st.oauth2Client] = granted],
               !.ops[o].pc = "saving",
               !.ops[o].pending = granted]

\* the write of the token file returned: exchangeCodeForTokens returns tokens
TokensSaved(st, o) ==
    [st EXCEPT !.file = st.ops[o].pending,
               !.exchanged = st.ops[o].pending,
               !.ops[o] = Ending(@, [NoOAuthOutcome EXCEPT
                                        !.kind = "tokens", !.token = st.ops[o].pending])]

OldToken(scopes) == Token("old", scopes)
\* the token granted for the scopes of getAuthUrl('youtube')
GrantedToken == Token("new", YOUTUBE_SCOPES)

\* what the token file holds when the process starts
TokensOnFile ==
    {NoToken,
     TokenWithoutScope("old"),
     OldToken(YOUTUBE_SCOPES),
     OldToken(<<ScopeYoutubeReadonly, ScopeYoutubeForceSsl>>),
     OldToken(<<ScopeYoutubeReadonly>>),
     OldToken(<<ScopeCalendar, ScopeYoutube, ScopeYoutubeForceSsl, ScopeYoutubeReadonly>>)}

OAuthKinds ==
    {"hasValidTokens", "getAuthUrl", "getAuthenticatedClient", "exchangeCodeForTokens"}

FreshClient(file, ids) ==
    [oauth2Client |-> 0, tokens |-> NoToken, credentials |-> <<>>, file |-> file,
     created |-> 0, credentialLoads |-> 0, tokenLoads |-> 0,
     exchanged |-> NoToken, reloadedAfterExchange |-> FALSE,
     ops |-> [o \in ids |-> IdleOp]]

\* a caller starts one of the four public operations
OAuthStart(o) ==
    /\ oauth.ops[o].pc = "idle"
    /\ \E kind \in OAuthKinds, service \in GoogleServices :
          oauth' = Begin(oauth, o, kind, service, 0)
    /\ UNCHANGED <<engineVars, views, playlist, mcp, http, jobs>>

OAuthCredentialsLoaded(o) ==
    /\ oauth.ops[o].pc = "credentials"
    /\ oauth' = CredentialsLoaded(oauth, o)
    /\ UNCHANGED <<engineVars, views, playlist, mcp, http, jobs>>

\* loadCredentials threw: initialize throws
OAuthCredentialsFailed(o) ==
    /\ oauth.ops[o].pc = "credentials"
    /\ oauth' = AfterInitializeFailed(oauth, o)
    /\ UNCHANGED <<engineVars, views, playlist, mcp, http, jobs>>

\* the read of the token file returns what the file held when the read
\* started or what it holds now
OAuthTokensLoaded(o) ==
    /\ oauth.ops[o].pc = "tokens"
    /\ \E content \in {oauth.ops[o].snapshot, oauth.file} :
          oauth' = TokensLoaded(oauth, o, content)
    /\ UNCHANGED <<engineVars, views, playlist, mcp, http, jobs>>

OAuthTokenGranted(o) ==
    /\ oauth.ops[o].pc = "getToken"
    /\ oauth' = TokenGranted(oauth, o, GrantedToken)
    /\ UNCHANGED <<engineVars, views, playlist, mcp, http, jobs>>

\* getToken threw: exchangeCodeForTokens throws
OAuthTokenRefused(o) ==
    /\ oauth.ops[o].pc = "getToken"
    /\ oauth' = [oauth EXCEPT !.ops[o] = Ending(@, OAuthError(<<"invalid_grant">>))]
    /\ UNCHANGED <<engineVars, views, playlist, mcp, http, jobs>>

OAuthTokensSaved(o) ==
    /\ oauth.ops[o].pc = "saving"
    /\ oauth' = TokensSaved(oauth, o)
    /\ UNCHANGED <<engineVars, views, playlist, mcp, http, jobs>>

\* the resumptions of initialize
OAuthInitializeStep(o) ==
    \/ OAuthCredentialsLoaded(o) \/ OAuthCredentialsFailed(o)
    \/ OAuthTokensLoaded(o)

OAuthStep(o) ==
    \/ OAuthInitializeStep(o)
    \/ OAuthTokenGranted(o) \/ OAuthTokenRefused(o) \/ OAuthTokensSaved(o)

TranscriptServiceAtRest == EngineAtRest /\ initialized = FALSE

InitOAuth ==
    /\ oauth \in {FreshClient(file, {1, 2}) : file \in TokensOnFile}
    /\ playlist = <<>>
    /\ TranscriptServiceAtRest
    /\ ViewsAtRest /\ ServerAtRest /\ JobsAtRest

NextOAuth == \E o \in DOMAIN oauth.ops : OAuthStart(o) \/ OAuthStep(o)

SpecOAuth == InitOAuth /\ [][NextOAuth]_vars

(***************************************************************************)
(* PlaylistService: the write operations.  Each invocation awaits          *)
(* hasValidTokens('youtube'), then getAuthenticatedClient('youtube'), then *)
(* the playlistItems call; its two client operations are the entries       *)
(* CheckOp(i) and ClientOp(i) of oauth.ops.                                *)
(***************************************************************************)
PlaylistWrites == {"removeVideoFromPlaylist", "addVideoToPlaylist"}

\* the YouTube call of a write operation
WriteCall(kind) ==
    IF kind = "removeVideoFromPlaylist" THEN "playlistItems.delete"
    ELSE "playlistItems.insert"

\* the catch blocks: `Failed to ...: ${error.message}`
FailedToWrite(kind, message) ==
    IF kind = "removeVideoFromPlaylist"
    THEN <<"Failed to remove video from playlist: ">> \o message
    ELSE <<"Failed to add video to playlist: ">> \o message

AuthenticationRequired ==
    <<"YouTube OAuth authentication required for write operations. Please authenticate first.">>

NoPlaylistOutcome == [kind |-> "none", removed |-> FALSE, id |-> "", message |-> <<>>]

IdleInvocation == [kind |-> "", pc |-> "idle", outcome |-> NoPlaylistOutcome]

CheckOp(i) == 2 * i - 1
ClientOp(i) == 2 * i

\* initializeWithOAuth after hasValidTokens resolved
AfterHasValidTokensUngated(hasValidTokens) == "getAuthenticatedClient"
AfterHasValidTokens(hasValidTokens) ==
    IF ~hasValidTokens THEN "throw" ELSE "getAuthenticatedClient"

PlaylistThrows(inv, message) ==
    [inv EXCEPT !.pc = "ended",
                !.outcome = [NoPlaylistOutcome EXCEPT
                                !.kind = "thrown",
                                !.message = FailedToWrite(inv.kind, message)]]

\* a caller starts a write operation: it runs up to the await of
\* hasValidTokens('youtube')
PlaylistCall(i) ==
    /\ playlist.calls[i].pc = "idle"
    /\ \E kind \in PlaylistWrites :
          playlist' = [playlist EXCEPT !.calls[i] =
                          [IdleInvocation EXCEPT !.kind = kind, !.pc = "hasValidTokens"]]
    /\ oauth' = Begin(oauth, CheckOp(i), "hasValidTokens", "youtube", i)
    /\ UNCHANGED <<engineVars, views, mcp, http, jobs>>

\* hasValidTokens resolved: throw, or go on to getAuthenticatedClient
PlaylistChecked(i) ==
    /\ playlist.calls[i].pc = "hasValidTokens"
    /\ oauth.ops[CheckOp(i)].pc = "ended"
    /\ IF AfterHasValidTokens(oauth.ops[CheckOp(i)].outcome.value) = "throw"
       THEN /\ playlist' = [playlist EXCEPT !.calls[i] =
                               PlaylistThrows(@, AuthenticationRequired)]
            /\ UNCHANGED oauth
       ELSE /\ playlist' = [playlist EXCEPT !.calls[i].pc = "getAuthenticatedClient"]
            /\ oauth' = Begin(oauth, ClientOp(i), "getAuthenticatedClient", "youtube", i)
    /\ UNCHANGED <<engineVars, views, mcp, http, jobs>>

\* getAuthenticatedClient settled: with a client the playlistItems call is
\* issued, with an error the catch block rethrows
PlaylistAuthenticated(i) ==
    /\ playlist.calls[i].pc = "getAuthenticatedClient"
    /\ oauth.ops[ClientOp(i)].pc = "ended"
    /\ LET attempt == oauth.ops[ClientOp(i)].outcome
           inv == playlist.calls[i]
       IN  IF attempt.kind = "client"
           THEN playlist' = [playlist EXCEPT
                                !.calls[i].pc = "playlistItems",
                                !.youtubeWithOAuth = attempt.client,
                                !.writes = Append(@, [call |-> WriteCall(inv.kind),
                                                      by |-> i,
                                                      auth |-> attempt.client])]
           ELSE playlist' = [playlist EXCEPT !.calls[i] =
                                PlaylistThrows(@, attempt.message)]
    /\ UNCHANGED <<engineVars, views, oauth, mcp, http, jobs>>

\* the playlistItems call resolved: `return true`, `return response.data.id || ''`
PlaylistWritten(i) ==
    /\ playlist.calls[i].pc = "playlistItems"
    /\ \E id \in {"", "item"} :
          playlist' = [playlist EXCEPT
              !.calls[i].pc = "ended",
              !.calls[i].outcome =
                  IF playlist.calls[i].kind = "removeVideoFromPlaylist"
                  THEN [NoPlaylistOutcome EXCEPT !.kind = "returned", !.removed = TRUE]
                  ELSE [NoPlaylistOutcome EXCEPT !.kind = "returned", !.id = id]]
    /\ UNCHANGED <<engineVars, views, oauth, mcp, http, jobs>>

\* the playlistItems call rejected
PlaylistWriteFailed(i) ==
    /\ playlist.calls[i].pc = "playlistItems"
    /\ playlist' = [playlist EXCEPT !.calls[i] = PlaylistThrows(@, <<"quotaExceeded">>)]
    /\ UNCHANGED <<engineVars, views, oauth, mcp, http, jobs>>

PlaylistCalls == {1, 2}

InitPlaylist ==
    /\ playlist = [calls |-> [i \in PlaylistCalls |-> IdleInvocation],
                   youtubeWithOAuth |-> 0,
                   writes |-> <<>>]
    /\ oauth \in {FreshClient(file, 1..4) : file \in TokensOnFile}
    /\ TranscriptServiceAtRest
    /\ ViewsAtRest /\ ServerAtRest /\ JobsAtRest

NextPlaylist ==
    \/ \E i \in PlaylistCalls :
          \/ PlaylistCall(i) \/ PlaylistChecked(i) \/ PlaylistAuthenticated(i)
          \/ PlaylistWritten(i) \/ PlaylistWriteFailed(i)
    \/ \E o \in DOMAIN oauth.ops : OAuthInitializeStep(o)

SpecPlaylist == InitPlaylist /\ [][NextPlaylist]_vars

(***************************************************************************)
(* The MCP server: the handler of tools/call.                              *)
(***************************************************************************)
ToolNames ==
    {"videos_getVideo", "videos_searchVideos", "transcripts_getTranscript",
     "channels_getChannel", "channels_listVideos",
     "playlists_getPlaylist", "playlists_getPlaylistItems"}

\* names a request can carry: the tools, and names of no tool
RequestedNames == ToolNames \union {"playlists_removeVideo", ""}

\* { content: [{ type: 'text', text }] }
TextResult(text) == [content |-> <<[type |-> "text", text |-> text]>>]

\* error instanceof Error ? error.message : String(error)
MessageOf(error) == IF error.instanceofError THEN error.message ELSE error.string

ErrorObject(message) ==
    [instanceofError |-> TRUE, message |-> message, string |-> <<"Error: ">> \o message]
\* a rejection with a value that is no Error
ThrownValue(string) == [instanceofError |-> FALSE, message |-> <<>>, string |-> string]

\* the catch block of the handler
CatchBlockRethrowing(error) == [kind |-> "thrown", error |-> error]
CatchBlock(error) ==
    [kind |-> "returned",
     result |-> [content |-> <<[type |-> "text",
                                text |-> <<"Error: ">> \o MessageOf(error)]>>,
                 isError |-> TRUE]]

\* JSON.stringify(result, null, 2) and the return of a case, inside the try
CaseReturn(value) ==
    IF value.k = "cyclic"
    THEN CatchBlock(ErrorObject(<<"Converting circular structure to JSON">>))
    ELSE [kind |-> "returned", result |-> TextResult(value.json)]

\* what the service methods resolve with
ServiceValues ==
    {[k |-> "object", json |-> <<"{", "}">>],
     [k |-> "null", json |-> <<"null">>],
     [k |-> "cyclic", json |-> <<>>]}

\* what the service methods reject with
ServiceErrors ==
    {ErrorObject(<<"Failed to get transcript: ", "No transcript found">>),
     ErrorObject(<<>>),
     ThrownValue(<<"quota">>)}

IdleRequest == [name |-> "", pc |-> "idle", settled |-> <<>>]

\* the handler up to its first await: a case of the switch awaits its
\* service method, the default branch throws inside the try
ToolCall(r) ==
    /\ mcp[r].pc = "idle"
    /\ \E name \in RequestedNames :
          mcp' = [mcp EXCEPT ![r] =
                     IF name \in ToolNames
                     THEN [IdleRequest EXCEPT !.name = name, !.pc = "service"]
                     ELSE [IdleRequest EXCEPT
                              !.name = name, !.pc = "ended",
                              !.settled = <<CatchBlock(ErrorObject(<<"Unknown tool: ", name>>))>>]]
    /\ UNCHANGED <<engineVars, views, oauth, playlist, http, jobs>>

\* the service method resolved
ToolResolved(r) ==
    /\ mcp[r].pc = "service"
    /\ \E value \in ServiceValues :
          mcp' = [mcp EXCEPT ![r].pc = "ended",
                             ![r].settled = Append(@, CaseReturn(value))]
    /\ UNCHANGED <<engineVars, views, oauth, playlist, http, jobs>>

\* the service method rejected
ToolRejected(r) ==
    /\ mcp[r].pc = "service"
    /\ \E error \in ServiceErrors :
          mcp' = [mcp EXCEPT ![r].pc = "ended",
                             ![r].settled = Append(@, CatchBlock(error))]
    /\ UNCHANGED <<engineVars, views, oauth, playlist, http, jobs>>

InitTools ==
    /\ mcp = [r \in {1, 2} |-> IdleRequest]
    /\ http = <<>>
    /\ TranscriptServiceAtRest
    /\ ViewsAtRest /\ OAuthAtRest /\ JobsAtRest

NextTools == \E r \in DOMAIN mcp : ToolCall(r) \/ ToolResolved(r) \/ ToolRejected(r)

SpecTools == InitTools /\ [][NextTools]_vars

(***************************************************************************)
(* HttpApiServer.handleRequest behind the listener of startMcpServer, for  *)
(* requests whose path starts with /api/.  A path is a sequence of pieces  *)
(* of its text; a parameter that is absent is the empty string (both are   *)
(* falsy).                                                                 *)
(***************************************************************************)
HttpMethods == {"GET", "POST", "DELETE", "PUT"}

NextVideoPath == <<"/api/playlist/next-video">>
TranscribePath == <<"/api/transcribe-video">>
RemovePath == <<"/api/playlist/remove-video">>

HttpPaths ==
    {NextVideoPath, NextVideoPath \o <<"s">>, TranscribePath, RemovePath,
     RemovePath \o <<"/">>, <<"/api/jobs">>}

\* what the request body holds: text JSON.parse rejects, the JSON null, a
\* JSON string, or an object with or without the two parameters
HttpBodies ==
    {[k |-> "invalid", videoId |-> "", playlistItemId |-> ""],
     [k |-> "null", videoId |-> "", playlistItemId |-> ""],
     [k |-> "string", videoId |-> "", playlistItemId |-> ""]}
    \union {[k |-> "object", videoId |-> v, playlistItemId |-> p] :
               v \in {"", "vid"}, p \in {"", "item"}}

\* String.prototype.startsWith on the pieces of a text
StartsWith(str, prefix) ==
    Len(prefix) <= Len(str) /\ SubSeq(str, 1, Len(prefix)) = prefix

NoResponse == [heads |-> <<>>, ends |-> 0]

\* res.writeHead(status, ...); res.end(...)
Respond(res, status) == [heads |-> Append(res.heads, status), ends |-> res.ends + 1]

\* the catch of the listener: 500 unless headers were sent
InternalServerError(res) == IF res.heads = <<>> THEN Respond(res, 500) ELSE res

IdleHttp ==
    [method |-> "", path |-> <<>>, playlistId |-> "", body |-> [k |-> "none"],
     pc |-> "idle", res |-> NoResponse, serviceCalls |-> <<>>, failed |-> FALSE]

\* the route handleRequest takes
RouteOf(method, path) ==
    IF method = "GET" /\ StartsWith(path, NextVideoPath) THEN "next-video"
    ELSE IF method = "POST" /\ path = TranscribePath THEN "transcribe-video"
    ELSE IF method = "DELETE" /\ path = RemovePath THEN "remove-video"
    ELSE "none"

Responding(req, status) == [req EXCEPT !.pc = "ended", !.res = Respond(@, status)]

Awaiting(req, call) ==
    [req EXCEPT !.pc = call, !.serviceCalls = Append(@, call)]

\* the listener calls handleRequest, which runs up to its first await
HttpRequest(h) ==
    /\ http[h].pc = "idle"
    /\ \E method \in HttpMethods, path \in HttpPaths,
          playlistId \in {"", "PL1"}, body \in HttpBodies :
          LET req == [IdleHttp EXCEPT !.method = method, !.path = path,
                                      !.playlistId = playlistId, !.body = body]
              route == RouteOf(method, path)
          IN  http' = [http EXCEPT ![h] =
                  IF route = "next-video"
                  THEN IF playlistId = "" THEN Responding(req, 400)
                       ELSE Awaiting(req, "getNextVideoToProcess")
                  ELSE IF route = "none" THEN Responding(req, 404)
                  ELSE [req EXCEPT !.pc = "readBody"]]
    /\ UNCHANGED <<engineVars, views, oauth, playlist, mcp, jobs>>

\* the body has been read: JSON.parse, then handleTranscribeVideo or
\* handleRemoveVideo up to its first await.  A rejected parse, and the
\* TypeError of destructuring null, leave handleRequest as a rejection that
\* the listener catches
HttpBodyRead(h) ==
    /\ http[h].pc = "readBody"
    /\ LET req == http[h]
           parameter == IF RouteOf(req.method, req.path) = "transcribe-video"
                        THEN req.body.videoId ELSE req.body.playlistItemId
       IN  http' = [http EXCEPT ![h] =
               IF req.body.k \in {"invalid", "null"}
               THEN [req EXCEPT !.pc = "ended", !.res = InternalServerError(@)]
               ELSE IF parameter = "" THEN Responding(req, 400)
               ELSE IF RouteOf(req.method, req.path) = "transcribe-video"
               THEN Awaiting(req, "getVideo")
               ELSE Awaiting(req, "removeVideoFromPlaylist")]
    /\ UNCHANGED <<engineVars, views, oauth, playlist, mcp, jobs>>

\* the awaited service method resolved
HttpServiceResolved(h) ==
    /\ http[h].pc \in {"getNextVideoToProcess", "getVideo", "getTranscript",
                       "removeVideoFromPlaylist"}
    /\ http' = [http EXCEPT ![h] =
                   IF @.pc = "getVideo" THEN Awaiting(@, "getTranscript")
                   ELSE Responding(@, 200)]
    /\ UNCHANGED <<engineVars, views, oauth, playlist, mcp, jobs>>

\* the awaited service method rejected: the catch of the route answers 400
HttpServiceRejected(h) ==
    /\ http[h].pc \in {"getNextVideoToProcess", "getVideo", "getTranscript",
                       "removeVideoFromPlaylist"}
    /\ http' = [http EXCEPT ![h] = [Responding(@, 400) EXCEPT !.failed = TRUE]]
    /\ UNCHANGED <<engineVars, views, oauth, playlist, mcp, jobs>>

InitHttp ==
    /\ http = [h \in {1} |-> IdleHttp]
    /\ mcp = <<>>
    /\ TranscriptServiceAtRest
    /\ ViewsAtRest /\ OAuthAtRest /\ JobsAtRest

NextHttp ==
    \E h \in DOMAIN http :
        \/ HttpRequest(h) \/ HttpBodyRead(h)
        \/ HttpServiceResolved(h) \/ HttpServiceRejected(h)

SpecHttp == InitHttp /\ [][NextHttp]_vars

(***************************************************************************)
(* TranscriptionJobService.  uuid() is modelled as the next unused number; *)
(* new Date() reads a clock that every reading moves on.  processJob       *)
(* catches whatever getTranscript throws, so the .catch of createJob never *)
(* runs.                                                                   *)
(***************************************************************************)
MaxJobs == 2

\* what the caption source answers to the getTranscript of a job
JobAnswers ==
    {NullAnswer, ListAnswer(<<>>),
     ListAnswer(<<[text |-> <<"a">>, start |-> <<"0">>, dur |-> <<"3", "0">>],
                  [text |-> <<"b">>, start |-> <<"3", "0">>, dur |-> <<"3", "0">>]>>)}

\* the job createJob stores
NewJob(jobId, videoId, now) ==
    [jobId |-> jobId, videoId |-> videoId, status |-> "processing",
     result |-> Undefined, error |-> Undefined,
     createdAt |-> now, completedAt |-> Undefined]

\* processJob after getTranscript returned `res`
CompletedWithoutTime(job, res, now) ==
    [job EXCEPT !.status = "completed",
                !.result = Some([transcript |-> <<>>, metadata |-> <<>>])]
Completed(job, res, now) ==
    [job EXCEPT
        !.status = "completed",
        !.result = Some(
            [transcript |->
                 JoinWithSpace([i \in 1..Len(res.transcript) |-> res.transcript[i].text]),
             metadata |->
                 [totalSegments |-> Len(res.transcript),
                  source |-> IF res.metadata.source = ""
                             THEN "youtube-caption-extractor"
                             ELSE res.metadata.source]]),
        !.completedAt = Some(now)]

\* the catch block of processJob
Failed(job, message) == [job EXCEPT !.status = "failed", !.error = Some(message)]

\* this.jobs.get(jobId)
GetJobOf(map, jobId) == IF jobId \in DOMAIN map THEN Some(map[jobId]) ELSE Undefined

NoJobs == [map |-> <<>>, running |-> {}, returned |-> <<>>, clock |-> 0,
           asked |-> 0, got |-> Undefined]

\* createJob: store the job, start processJob (which runs up to its await
\* of getTranscript), return the job
CreateJob ==
    /\ Len(jobs.map) < MaxJobs
    /\ \E videoId \in VideoIds :
          LET jobId == Len(jobs.map) + 1
              job == NewJob(jobId, videoId, jobs.clock)
          IN  jobs' = [jobs EXCEPT !.map = Append(@, job),
                                   !.running = @ \cup {jobId},
                                   !.returned = Append(@, job),
                                   !.clock = @ + 1]
    /\ UNCHANGED <<engineVars, views, oauth, playlist, mcp, http>>

\* the caption source answered: getTranscript returns or throws, and
\* processJob completes or fails the job
JobResolved(jobId) ==
    /\ jobId \in jobs.running
    /\ \E answer \in JobAnswers :
          LET job == jobs.map[jobId]
              res == AfterFetch(job.videoId, DefaultLanguage, answer, NoCriteria).outcome
          IN  jobs' = [jobs EXCEPT
                  !.map[jobId] = IF res.kind = "result"
                                 THEN Completed(job, res, jobs.clock)
                                 ELSE Failed(job, res.message),
                  !.running = @ \ {jobId},
                  !.clock = IF res.kind = "result" THEN @ + 1 ELSE @]
    /\ UNCHANGED <<engineVars, views, oauth, playlist, mcp, http>>

\* the caption source rejected: getTranscript throws
JobRejected(jobId) ==
    /\ jobId \in jobs.running
    /\ jobs' = [jobs EXCEPT
                   !.map[jobId] = Failed(@, AfterRejection.outcome.message),
                   !.running = @ \ {jobId}]
    /\ UNCHANGED <<engineVars, views, oauth, playlist, mcp, http>>

\* getJob(jobId), for an id createJob returned or for 0, an id that uuid()
\* never gives
GetJob(jobId) ==
    /\ jobId = 0 \/ jobId \in DOMAIN jobs.map
    /\ jobs' = [jobs EXCEPT !.asked = jobId, !.got = GetJobOf(jobs.map, jobId)]
    /\ UNCHANGED <<engineVars, views, oauth, playlist, mcp, http>>

InitJobs ==
    /\ jobs = NoJobs
    /\ TranscriptServiceAtRest
    /\ ViewsAtRest /\ OAuthAtRest /\ ServerAtRest

NextJobs ==
    \/ CreateJob
    \/ \E jobId \in 0..MaxJobs :
          JobResolved(jobId) \/ JobRejected(jobId) \/ GetJob(jobId)

SpecJobs == InitJobs /\ [][NextJobs]_vars

(***************************************************************************)
(* Vocabulary of the properties.                                           *)
(***************************************************************************)
Done == pc = "done"

TimeSupplied(p) ==
    \/ p.startTime.k # "undef" \/ p.endTime.k # "undef"
    \/ p.lastMinutes # Undefined \/ p.firstMinutes # Undefined
WindowSupplied(p) == p.startIndex # Undefined \/ p.endIndex # Undefined

\* the value of a supplied optional number, or a default
OrElse(opt, default) == IF opt = Undefined THEN default ELSE opt[1]

IsPrefixOf(short, long) ==
    /\ Len(short) <= Len(long)
    /\ \A i \in 1..Len(short) : short[i] = long[i]

(***************************************************************************)
(* Properties of filterTranscriptSegments.                                 *)
(***************************************************************************)

\* C1: with a time criterion and startIndex/endIndex, the element returned at
\* position i is the (startIndex + i)-th element of the time-narrowed
\* sequence (positions counted from 0), not of the original input.
C1_WindowOnNarrowed ==
    (Done /\ TimeSupplied(params) /\ WindowSupplied(params)) =>
        LET narrowed == filtered.first
            first == OrElse(params.startIndex, 0)
        IN  \A i \in 0..(Len(result) - 1) :
                /\ first + i + 1 <= Len(narrowed)
                /\ result[i + 1] = narrowed[first + i + 1]

\* a call where the time criteria dropped the head of the input and the window
\* starts past position 0, so that the two readings differ
C1_Witness ==
    /\ Done /\ TimeSupplied(params)
    /\ params.startIndex # Undefined /\ ValueOf(params.startIndex) >= 1
    /\ result # <<>>
    /\ Len(filtered.first) < Len(transcript)
    /\ result[1] # transcript[ValueOf(params.startIndex) + 1]

\* C2: with no criterion supplied a non-empty input is returned unchanged.
C2_IdentityWithoutCriteria ==
    (Done /\ params = NoCriteria /\ transcript # <<>>) => result = transcript

C2_Witness ==
    Done /\ params = NoCriteria /\ Len(transcript) >= 2 /\ result = transcript

\* C3: with maxSegments = k alone the result is the prefix of the input of
\* length min(k, length of the input).
C3_MaxSegmentsPrefix ==
    (Done /\ params.maxSegments # Undefined
          /\ params = [NoCriteria EXCEPT !.maxSegments = params.maxSegments]) =>
        LET k == ValueOf(params.maxSegments)
        IN  result = SubSeq(transcript, 1, Min2(k, Len(transcript)))

C3_Witness ==
    /\ Done /\ params.maxSegments # Undefined
    /\ params = [NoCriteria EXCEPT !.maxSegments = params.maxSegments]
    /\ ValueOf(params.maxSegments) >= 1
    /\ ValueOf(params.maxSegments) < Len(transcript)
    /\ Len(result) = ValueOf(params.maxSegments)

\* C4: whenever maxSegments is supplied the result has at most maxSegments
\* elements and is a prefix of what the time and index stages produced.
C4_CapIsLast ==
    (Done /\ params.maxSegments # Undefined) =>
        /\ Len(result) <= ValueOf(params.maxSegments)
        /\ IsPrefixOf(result, filtered.index)

C4_Witness ==
    /\ Done /\ params.maxSegments # Undefined
    /\ TimeSupplied(params) /\ WindowSupplied(params)
    /\ Len(filtered.index) > ValueOf(params.maxSegments)
    /\ Len(result) = ValueOf(params.maxSegments)
    /\ result # <<>>

\* the largest start + duration of a non-empty sequence
EndOfLast(segments) ==
    CHOOSE m \in {segments[i].start + segments[i].duration : i \in 1..Len(segments)} :
        \A i \in 1..Len(segments) : segments[i].start + segments[i].duration <= m

\* x lies in the closed interval [lo, hi] of two JavaScript numbers
InClosedInterval(x, lo, hi) ==
    lo.k = "num" /\ hi.k = "num" /\ lo.v <= x /\ x <= hi.v

\* C5: with startTime or endTime and no later criterion the result is exactly
\* the input segments whose start lies in [S, E], S the normalized startTime
\* or 0, E the normalized endTime or the total duration of the input; the
\* segment's own duration plays no part.
C5_ClosedTimeWindow ==
    (Done /\ (params.startTime.k # "undef" \/ params.endTime.k # "undef")
          /\ params = [NoCriteria EXCEPT !.startTime = params.startTime,
                                         !.endTime = params.endTime]) =>
        IF transcript = <<>> THEN result = <<>>
        ELSE LET S == IF params.startTime.k # "undef"
                      THEN parseTimeToSeconds(params.startTime) ELSE JNum(0)
                 E == IF params.endTime.k # "undef"
                      THEN parseTimeToSeconds(params.endTime)
                      ELSE JNum(EndOfLast(transcript))
                 InWindow(segment) == InClosedInterval(segment.start, S, E)
             IN  result = SelectSeq(transcript, InWindow)

\* a window [30, 60] over segments starting at 0 (and reaching past 30), at 30
\* and at 60: the first is dropped, the two on the bounds are kept
C5_Witness ==
    /\ Done
    /\ params = [NoCriteria EXCEPT !.startTime = TNum(30),
                                   !.endTime = TStr(<<"1", ":", "0", "0">>)]
    /\ transcript = <<Seg(0, 60), Seg(30, 30), Seg(60, 30)>>
    /\ result = <<Seg(30, 30), Seg(60, 30)>>

\* C6: the lastMinutes = m stage keeps exactly the segments of the running
\* result that start at or after T - 60 * m, T being the largest start +
\* duration of the whole input; a negative bound keeps them all; ten
\* one-minute segments with lastMinutes = 3 give those at 420, 480 and 540.
C6_LastMinutes ==
    (Done /\ params.lastMinutes # Undefined) =>
        /\ transcript # <<>> =>
              LET bound == EndOfLast(transcript) - 60 * ValueOf(params.lastMinutes)
                  Late(segment) == segment.start >= bound
              IN  /\ filtered.last = SelectSeq(filtered.time, Late)
                  /\ bound < 0 => filtered.last = filtered.time
        /\ (transcript = TenMinutes /\ params = LastThreeMinutes) =>
              result = <<Seg(420, 60), Seg(480, 60), Seg(540, 60)>>

\* the time window dropped the end of the input, and the bound taken from the
\* whole input lies above the bound the narrowed sequence alone would give
C6_Witness ==
    /\ Done /\ params.lastMinutes # Undefined
    /\ filtered.time # <<>>
    /\ EndOfLast(filtered.time) < EndOfLast(transcript)
    /\ \E i \in 1..Len(filtered.time) :
          /\ filtered.time[i].start
                < EndOfLast(transcript) - 60 * ValueOf(params.lastMinutes)
          /\ filtered.time[i].start
                >= EndOfLast(filtered.time) - 60 * ValueOf(params.lastMinutes)
    /\ Len(filtered.last) < Len(filtered.time)

\* C7: the firstMinutes = f stage keeps exactly the segments of the running
\* result that start at or before 60 * f; with maxSegments = k and no index
\* window the result is the first min(k, n) of those n segments; with f = 5,
\* k = 3 and three or more segments in the first 300 seconds the result has
\* exactly 3 segments, all starting at or before 300.
C7_FirstMinutes ==
    (Done /\ params.firstMinutes # Undefined) =>
        LET Early(segment) == segment.start <= 60 * ValueOf(params.firstMinutes)
            kept == SelectSeq(filtered.last, Early)
        IN  /\ filtered.first = kept
            /\ (params.maxSegments # Undefined /\ ~WindowSupplied(params)) =>
                  result = SubSeq(kept, 1, Min2(ValueOf(params.maxSegments), Len(kept)))
            /\ (/\ params = FirstFiveCapThree
                /\ Cardinality({i \in 1..Len(transcript) : transcript[i].start <= 300}) >= 3) =>
                  /\ Len(result) = 3
                  /\ \A i \in 1..3 : result[i].start <= 300

\* a segment starts exactly at 60 * f and is kept, a later one is dropped, and
\* the cap then shortens what the stage kept
C7_Witness ==
    /\ Done /\ params.firstMinutes # Undefined
    /\ params.maxSegments # Undefined /\ ~WindowSupplied(params)
    /\ \E i \in 1..Len(filtered.first) :
          filtered.first[i].start = 60 * ValueOf(params.firstMinutes)
    /\ Len(filtered.first) < Len(filtered.last)
    /\ result # <<>>
    /\ Len(result) < Len(filtered.first)

\* the elements of seq at the positions first..last (counted from 0) that exist
AtPositions(seq, first, last) ==
    SubSeq(seq, Max2(first, 0) + 1, Min2(last, Len(seq) - 1) + 1)

\* C8 as stated: for every integer startIndex and endIndex the index stage
\* returns the elements of the running sequence at positions
\* startIndex..endIndex inclusive, startIndex defaulting to 0 and the end to
\* the length of the running sequence.
C8_IndexWindow ==
    (Done /\ WindowSupplied(params)) =>
        filtered.index = AtPositions(filtered.first,
                                     OrElse(params.startIndex, 0),
                                     OrElse(params.endIndex, Len(filtered.first)))

\* C8 amended: the index stage returns the positions startIndex..endIndex
\* inclusive for startIndex >= 0 and endIndex >= -1 (defaults 0 and the
\* length); a negative startIndex and an endIndex below -1 count from the end
\* of the running sequence; an index at or beyond the length gives a shorter
\* or empty result, and every integer gives a result.
C8_IndexWindowFromEnd ==
    (Done /\ WindowSupplied(params)) =>
        LET running == filtered.first
            n == Len(running)
            s == OrElse(params.startIndex, 0)
            e == OrElse(params.endIndex, n)
            first == IF s < 0 THEN Max2(n + s, 0) ELSE s
            last == IF e < -1 THEN n + e ELSE e
        IN  /\ filtered.index = AtPositions(running, first, last)
            /\ (s >= 0 /\ e >= -1) => filtered.index = AtPositions(running, s, e)
            /\ (s >= n \/ e < s) /\ s >= 0 /\ e >= -1 => filtered.index = <<>>

\* a window that starts inside the running sequence and ends beyond it, and
\* so comes out shorter than asked for
C8_Witness ==
    /\ Done
    /\ params.startIndex # Undefined /\ params.endIndex # Undefined
    /\ ValueOf(params.startIndex) >= 0
    /\ ValueOf(params.endIndex) >= Len(filtered.first)
    /\ Len(filtered.first) < Len(transcript)
    /\ filtered.index # <<>>
    /\ Len(filtered.index)
          < ValueOf(params.endIndex) - ValueOf(params.startIndex) + 1

(***************************************************************************)
(* Properties of parseTimeToSeconds.                                       *)
(***************************************************************************)
ColonsOf(str) == {i \in 1..Len(str) : str[i] = ":"}

IsDigitString(str) ==
    str # <<>> /\ \A i \in 1..Len(str) : str[i] \in Digits

\* the value of a digit string, read from the left
RECURSIVE ReadDecimal(_, _)
ReadDecimal(str, acc) ==
    IF str = <<>> THEN acc
    ELSE ReadDecimal(Tail(str), 10 * acc + DigitValue(Head(str)))

\* the text before the first colon, between two colons, after the last colon
Before(str, c) == SubSeq(str, 1, c - 1)
Between(str, c, d) == SubSeq(str, c + 1, d - 1)
After(str, c) == SubSeq(str, c + 1, Len(str))

\* C9: a number is returned unchanged, M:S gives 60*M + S, H:M:S gives
\* 3600*H + 60*M + S, a string with any other number of parts gives 0;
\* "1:30" gives 90, "1:02:03" gives 3723, 45 gives 45, "bogus" gives 0.
C9_ParseTime ==
    Done =>
        /\ timeArg.k = "num" => timeRet = JNum(timeArg.v)
        /\ timeArg.k = "str" =>
              LET str == timeArg.s
                  colons == ColonsOf(str)
              IN  /\ Cardinality(colons) \notin {1, 2} => timeRet = JNum(0)
                  /\ \A c \in colons :
                        (/\ colons = {c}
                         /\ IsDigitString(Before(str, c))
                         /\ IsDigitString(After(str, c))) =>
                            timeRet = JNum(60 * ReadDecimal(Before(str, c), 0)
                                           + ReadDecimal(After(str, c), 0))
                  /\ \A c, d \in colons :
                        (/\ c < d /\ colons = {c, d}
                         /\ IsDigitString(Before(str, c))
                         /\ IsDigitString(Between(str, c, d))
                         /\ IsDigitString(After(str, d))) =>
                            timeRet = JNum(3600 * ReadDecimal(Before(str, c), 0)
                                           + 60 * ReadDecimal(Between(str, c, d), 0)
                                           + ReadDecimal(After(str, d), 0))
        /\ timeArg = TStr(OneThirty) => timeRet = JNum(90)
        /\ timeArg = TStr(OneTwoThree) => timeRet = JNum(3723)
        /\ timeArg = TNum(45) => timeRet = JNum(45)
        /\ timeArg = TStr(Bogus) => timeRet = JNum(0)

C9_Witness ==
    Done /\ timeArg = TStr(OneTwoThree) /\ timeRet = JNum(3723)

\* a part that Number() reads as a number: digits only (the empty part is 0)
IsNumericPart(str) == \A i \in 1..Len(str) : str[i] \in Digits

\* a parseable clock value MM:SS or HH:MM:SS: two or three numeric parts
IsClockValue(str) ==
    LET colons == ColonsOf(str)
    IN  \/ \E c \in colons :
              /\ colons = {c}
              /\ IsNumericPart(Before(str, c)) /\ IsNumericPart(After(str, c))
        \/ \E c, d \in colons :
              /\ c < d /\ colons = {c, d}
              /\ IsNumericPart(Before(str, c))
              /\ IsNumericPart(Between(str, c, d))
              /\ IsNumericPart(After(str, d))

\* C10: parseTimeToSeconds returns for every string, and returns 0 for every
\* string that is not a parseable clock value MM:SS or HH:MM:SS, two- and
\* three-part strings with a non-numeric part such as "a:b" included.
C10_UnparseableIsZero ==
    (Done /\ timeArg.k = "str" /\ ~IsClockValue(timeArg.s)) => timeRet = JNum(0)

(***************************************************************************)
(* Properties of the empty input and of the result's shape.                *)
(***************************************************************************)
IsFinite(x) == x.k = "num"

NothingDelivered(answer) ==
    \/ answer.k = "null"
    \/ answer.k = "list" /\ answer.cues = <<>>

Ended(call) == call.pc \in {"returned", "thrown"}

Ran(call, step) == \E i \in 1..Len(call.steps) : call.steps[i] = step

\* C12: when the caption source delivers nothing or an empty list,
\* getTranscript ends with an error whose message starts with
\* "Failed to get transcript: No transcript found for video"; neither the
\* filter nor the metadata computation ran, and no result object is returned.
C12_NoTranscriptFound ==
    \A c \in DOMAIN calls :
        (Ended(calls[c]) /\ NothingDelivered(calls[c].answer)) =>
            /\ calls[c].pc = "thrown"
            /\ calls[c].outcome.kind = "error"
            /\ IsPrefixOf(<<"Failed to get transcript: ",
                            "No transcript found for video ">>,
                          calls[c].outcome.message)
            /\ ~Ran(calls[c], "filter")
            /\ ~Ran(calls[c], "metadata")
            /\ calls[c].outcome.metadata = NoMetadata

\* a call that ended on an empty list (the case a test for a missing list
\* alone lets through)
C12_Witness ==
    \E c \in DOMAIN calls :
        /\ calls[c].pc = "thrown"
        /\ calls[c].answer = ListAnswer(<<>>)
        /\ calls[c].params.maxSegments # Undefined

\* sub can be obtained from seq by deleting elements
RECURSIVE IsSubsequence(_, _)
IsSubsequence(sub, seq) ==
    IF sub = <<>> THEN TRUE
    ELSE IF seq = <<>> THEN FALSE
    ELSE IF Head(sub) = Head(seq) THEN IsSubsequence(Tail(sub), Tail(seq))
    ELSE IsSubsequence(sub, Tail(seq))

\* an increasing choice of input positions, one for each returned element
PositionsOf(sub, seq) ==
    {f \in [1..Len(sub) -> 1..Len(seq)] :
        /\ \A i \in 1..Len(sub) : sub[i] = seq[f[i]]
        /\ \A i \in 1..(Len(sub) - 1) : f[i] < f[i + 1]}

\* C13: for every input and every combination of criteria, negative and
\* out-of-range indices included, the result is a sub-sequence of the input:
\* every returned element is an input element, no input position is used
\* twice and the input order is kept.
C13_SubSequence ==
    Done => /\ IsSubsequence(result, transcript)
            /\ (Len(transcript) <= MaxLen => PositionsOf(result, transcript) # {})

\* a call with an index counted from the end that returned several segments
\* but not all of them
C13_Witness ==
    /\ Done
    /\ params.startIndex # Undefined /\ ValueOf(params.startIndex) < 0
    /\ params.lastMinutes # Undefined
    /\ Len(result) >= 2
    /\ Len(result) < Len(transcript)

(***************************************************************************)
(* Properties of the metadata of a getTranscript result.                   *)
(***************************************************************************)
\* the segment a cue denotes, its decimal strings read as numbers
CueSegment(cue) == Seg(ReadDecimal(cue.start, 0), ReadDecimal(cue.dur, 0))

\* the segments a call received from the caption source
Received(call) ==
    [i \in 1..Len(call.answer.cues) |-> CueSegment(call.answer.cues[i])]

StartOfFirst(segments) ==
    CHOOSE m \in {segments[i].start : i \in 1..Len(segments)} :
        \A i \in 1..Len(segments) : m <= segments[i].start

\* C14: in every result, segmentCount is the length of the returned
\* transcript, totalSegments the number of segments received from the caption
\* source and totalDuration the maximum of start + duration over all received
\* segments whatever the criteria; hence segmentCount <= totalSegments.
C14_Counts ==
    \A c \in DOMAIN calls :
        calls[c].pc = "returned" =>
            LET out == calls[c].outcome
                md == out.metadata
            IN  /\ md.segmentCount = Len(out.transcript)
                /\ md.totalSegments = Len(calls[c].answer.cues)
                /\ md.totalDuration = JNum(EndOfLast(Received(calls[c])))
                /\ md.segmentCount <= md.totalSegments

\* a result whose criteria dropped the segment that ends last
C14_Witness ==
    \E c \in DOMAIN calls :
        /\ calls[c].pc = "returned"
        /\ calls[c].outcome.transcript # <<>>
        /\ calls[c].outcome.metadata.segmentCount
               < calls[c].outcome.metadata.totalSegments
        /\ EndOfLast(calls[c].outcome.transcript)
               < EndOfLast(Received(calls[c]))

\* C15: filteredDuration is the span of the kept window, (maximum of
\* start + duration) - (minimum start) over the kept segments, not the sum of
\* their durations; it is 0 when nothing is kept.
C15_FilteredDurationIsSpan ==
    \A c \in DOMAIN calls :
        calls[c].pc = "returned" =>
            LET kept == calls[c].outcome.transcript
            IN  calls[c].outcome.metadata.filteredDuration =
                    IF kept = <<>> THEN JNum(0)
                    ELSE JNum(EndOfLast(kept) - StartOfFirst(kept))

\* a result of several kept segments whose span differs from the sum of
\* their durations
C15_Witness ==
    \E c \in DOMAIN calls :
        /\ calls[c].pc = "returned"
        /\ Len(calls[c].outcome.transcript) >= 2
        /\ Len(calls[c].outcome.transcript) < Len(calls[c].answer.cues)
        /\ calls[c].outcome.metadata.filteredDuration
               # JNum(SumOfDurations(calls[c].outcome.transcript))

CriteriaFields ==
    {"startTime", "endTime", "lastMinutes", "firstMinutes", "maxSegments",
     "startIndex", "endIndex"}

\* C16: appliedFilters carries for each of the seven criteria exactly the
\* value the caller supplied, and undefined for a criterion the caller did not
\* supply; never a defaulted, normalized or clamped value ("1:30" stays
\* "1:30", it does not become 90).
C16_AppliedFiltersEcho ==
    \A c \in DOMAIN calls :
        calls[c].pc = "returned" =>
            /\ DOMAIN calls[c].outcome.metadata.appliedFilters = CriteriaFields
            /\ \A f \in CriteriaFields :
                   calls[c].outcome.metadata.appliedFilters[f] = calls[c].params[f]

\* the result of a call with {startTime: "1:30"} and nothing else
C16_Witness ==
    \E c \in DOMAIN calls :
        /\ calls[c].pc = "returned"
        /\ calls[c].params = FromOneThirty
        /\ calls[c].outcome.metadata.appliedFilters.startTime.s
               = <<"1", ":", "3", "0">>
        /\ calls[c].outcome.metadata.appliedFilters.endIndex = Undefined
        /\ Len(calls[c].outcome.transcript) < Len(calls[c].answer.cues)

(***************************************************************************)
(* Properties of filterTranscriptSegments as a total, pure function.       *)
(***************************************************************************)
\* startTime and endTime both supplied as numbers, the start after the end
StartAfterEnd(p) ==
    /\ p.startTime.k = "num" /\ p.endTime.k = "num"
    /\ p.startTime.v > p.endTime.v

\* startIndex and endIndex both supplied, the first greater than the second
StartIndexAfterEndIndex(p) ==
    /\ p.startIndex # Undefined /\ p.endIndex # Undefined
    /\ ValueOf(p.startIndex) > ValueOf(p.endIndex)

\* startIndex supplied and at or past the end of the sequence
StartIndexBeyond(p, segments) ==
    p.startIndex # Undefined /\ ValueOf(p.startIndex) >= Len(segments)

AloneOutcome(call) ==
    IF call.answer.k = "rejected" THEN AfterRejection.outcome
    ELSE AfterFetch(call.videoId, call.language, call.answer, call.params).outcome

\* every ended call has the outcome it has when run alone, and the flag tells
\* whether a call was made
EachCallAsAlone ==
    /\ \A c \in DOMAIN calls :
           Ended(calls[c]) => calls[c].outcome = AloneOutcome(calls[c])
    /\ initialized = (\E c \in DOMAIN calls : calls[c].pc # "idle")

\* a step changes the record of one call at most, and of the instance nothing
\* but the flag, which only goes from false to true
OneCallPerStep ==
    /\ \A c, d \in DOMAIN calls :
           (c # d /\ calls'[c] # calls[c]) => calls'[d] = calls[d]
    /\ initialized => initialized'

C20_PagesCoverOnce ==
    /\ pc = "call" =>
           paging.collected =
               SubSeq(transcript, 1, Min2(paging.next * paging.size, Len(transcript)))
    /\ pc = "done" =>
           /\ paging.next = PageCount(Len(transcript), paging.size)
           /\ paging.collected = transcript
           /\ ValueOf(params.startIndex) >= Len(transcript)
           /\ result = <<>>

\* all the pages of a transcript that is not a whole number of pages long,
\* and a request past its end
C20_Witness ==
    /\ pc = "done"
    /\ paging.size >= 2
    /\ paging.next >= 2
    /\ Len(transcript) % paging.size # 0
    /\ paging.collected = transcript
    /\ ValueOf(params.startIndex) > Len(transcript)

(***************************************************************************)
(* Properties of the time stages taken together.                           *)
(***************************************************************************)
\* the segment passes every supplied time test, each test evaluated on the
\* original list `all`
PassesTimeTests(segment, all, p) ==
    LET total == TotalDuration(all)
        at == JNum(segment.start)
    IN  /\ (p.startTime.k # "undef" \/ p.endTime.k # "undef") =>
               /\ JGe(at, IF p.startTime.k # "undef"
                          THEN parseTimeToSeconds(p.startTime) ELSE JNum(0))
               /\ JLe(at, IF p.endTime.k # "undef"
                          THEN parseTimeToSeconds(p.endTime) ELSE total)
        /\ p.lastMinutes # Undefined =>
               JGe(at, JSub(total, ValueOf(p.lastMinutes) * 60))
        /\ p.firstMinutes # Undefined =>
               JLe(at, JNum(ValueOf(p.firstMinutes) * 60))

\* the three time stages applied in the six possible orders
TimeStageOrders(all, p) ==
    LET total == TotalDuration(all)
        T(x) == TimeWindowStage(x, p, total)
        L(x) == LastMinutesStage(x, p, total)
        F(x) == FirstMinutesStage(x, p)
    IN  {F(L(T(all))), F(T(L(all))), L(F(T(all))), L(T(F(all))),
         T(F(L(all))), T(L(F(all)))}

\* C26: the three time stages are order-independent: for every input and
\* every combination of startTime/endTime, lastMinutes and firstMinutes the
\* sequence they produce one after the other is the sequence of the original
\* segments that pass all supplied time tests, each evaluated against the
\* original list with bounds taken from the full input's total duration.
C26_TimeStagesCommute ==
    Done =>
        LET Passes(segment) == PassesTimeTests(segment, transcript, params)
        IN  /\ filtered.first = SelectSeq(transcript, Passes)
            /\ TimeStageOrders(transcript, params) = {filtered.first}

\* a call where the time window dropped a segment, the last-minutes test
\* dropped another one, a first-minutes test was supplied and a segment is left
C26_Witness ==
    /\ Done
    /\ params.firstMinutes # Undefined
    /\ Len(filtered.time) < Len(transcript)
    /\ Len(filtered.last) < Len(filtered.time)
    /\ filtered.first # <<>>

\* C27: for segments with non-negative start and duration every result of
\* getTranscript has 0 <= filteredDuration <= totalDuration, whatever the
\* criteria.
C27_FilteredWithinTotal ==
    \A c \in DOMAIN calls :
        calls[c].pc = "returned" =>
            LET md == calls[c].outcome.metadata
            IN  /\ IsFinite(md.filteredDuration) /\ IsFinite(md.totalDuration)
                /\ 0 <= md.filteredDuration.v
                /\ md.filteredDuration.v <= md.totalDuration.v

\* a result whose kept window is shorter than the video and not empty
C27_Witness ==
    \E c \in DOMAIN calls :
        /\ calls[c].pc = "returned"
        /\ Len(calls[c].outcome.transcript) >= 2
        /\ 0 < calls[c].outcome.metadata.filteredDuration.v
        /\ calls[c].outcome.metadata.filteredDuration.v
               < calls[c].outcome.metadata.totalDuration.v

(***************************************************************************)
(* Properties of searchTranscript.                                         *)
(***************************************************************************)
SameLetterIgnoringCase(a, b) == a = b \/ {a, b} = {"a", "A"}

\* query occurs in text, the case of the letters ignored
OccursIgnoringCase(query, text) ==
    \E i \in 0..(Len(text) - Len(query)) :
        \A j \in 1..Len(query) : SameLetterIgnoringCase(text[i + j], query[j])

\* the cues a search received, as segments with their text
ReceivedWithText(view) ==
    [i \in 1..Len(view.answer.cues) |->
        [text |-> view.answer.cues[i].text,
         start |-> ReadDecimal(view.answer.cues[i].start, 0),
         duration |-> ReadDecimal(view.answer.cues[i].dur, 0)]]

\* C25: searchTranscript searches the full, unsegmented transcript: it
\* returns exactly the segments whose text contains the query, case ignored,
\* in transcript order, totalMatches is their number, and the metadata has
\* segmentCount = totalSegments.
C25_SearchesFullTranscript ==
    \A v \in DOMAIN views :
        views[v].outcome.kind = "result" =>
            LET out == views[v].outcome
                Has(segment) == OccursIgnoringCase(views[v].query, segment.text)
            IN  /\ out.matches = SelectSeq(ReceivedWithText(views[v]), Has)
                /\ out.totalMatches = Len(out.matches)
                /\ out.metadata.segmentCount = out.metadata.totalSegments
                /\ out.metadata.totalSegments = Len(views[v].answer.cues)
                /\ out.metadata.appliedFilters = NoCriteria

\* a search whose query differs in case from the text and that found the
\* second of two segments only
C25_Witness ==
    \E v \in DOMAIN views :
        /\ views[v].outcome.kind = "result"
        /\ Len(views[v].answer.cues) = 2
        /\ views[v].outcome.totalMatches = 1
        /\ views[v].outcome.matches[1].start = 30
        /\ views[v].query # <<>>
        /\ ~Includes(views[v].outcome.matches[1].text, views[v].query)

(***************************************************************************)
(* Properties of getTimestampedTranscript.                                 *)
(***************************************************************************)
\* the segments getTranscript returns for what a view received and asked for
FilteredFor(view) ==
    filterTranscriptSegments(ReceivedWithText(view), view.params)

Answered(i, value) ==
    /\ oauth.ops[CheckOp(i)].pc = "ended"
    /\ oauth.ops[CheckOp(i)].owner = i
    /\ oauth.ops[CheckOp(i)].kind = "hasValidTokens"
    /\ oauth.ops[CheckOp(i)].outcome.value = value

WritesBy(i) == {n \in 1..Len(playlist.writes) : playlist.writes[n].by = i}

TextOf(res) == res.content[1].text

Flagged(res) == "isError" \in DOMAIN res /\ res.isError = TRUE

\* C23: the tools/call handler lets no exception escape and settles each
\* request with exactly one result object; a service failure or an unknown
\* tool name gives isError = true and a text starting with "Error: "
\* ("Error: Unknown tool: <name>" for an unknown name), a success gives a
\* result without isError.
C23_HandlerAlwaysReturns ==
    \A r \in DOMAIN mcp :
        /\ Len(mcp[r].settled) <= 1
        /\ mcp[r].pc = "ended" <=> Len(mcp[r].settled) = 1
        /\ mcp[r].pc = "ended" =>
              LET outcome == mcp[r].settled[1]
              IN  /\ outcome.kind = "returned"
                  /\ Len(outcome.result.content) = 1
                  /\ IF Flagged(outcome.result)
                     THEN IsPrefixOf(<<"Error: ">>, TextOf(outcome.result))
                     ELSE /\ "isError" \notin DOMAIN outcome.result
                          /\ mcp[r].name \in ToolNames
                          /\ TextOf(outcome.result) \in {v.json : v \in ServiceValues}
                  /\ mcp[r].name \notin ToolNames =>
                         /\ Flagged(outcome.result)
                         /\ TextOf(outcome.result)
                                = <<"Error: ", "Unknown tool: ", mcp[r].name>>

\* the step that settles a request after its service method rejected gives
\* a flagged result carrying the rejection's message
C23_Witness ==
    \E r, q \in DOMAIN mcp :
        /\ mcp[r].pc = "ended" /\ mcp[r].name = "transcripts_getTranscript"
        /\ Flagged(mcp[r].settled[1].result)
        /\ TextOf(mcp[r].settled[1].result)
               = <<"Error: ", "Failed to get transcript: ", "No transcript found">>
        /\ mcp[q].pc = "ended" /\ mcp[q].name = "playlists_removeVideo"
        /\ Flagged(mcp[q].settled[1].result)

(***************************************************************************)
(* Properties of the HTTP API.                                             *)
(***************************************************************************)
\* the request names a route that needs a parameter and does not carry it
\* in a body that could be parsed or in its query
MissingParameter(req) ==
    LET route == RouteOf(req.method, req.path)
    IN  \/ route = "next-video" /\ req.playlistId = ""
        \/ /\ route = "transcribe-video"
           /\ req.body.k # "invalid" /\ req.body.videoId = ""
        \/ /\ route = "remove-video"
           /\ req.body.k # "invalid" /\ req.body.playlistItemId = ""

\* C24: every request under /api/ gets exactly one response: headers are
\* written once, a missing required parameter gives 400 with no service
\* call, a service failure gives 400, an unmatched method/path gives 404,
\* and a body that cannot be parsed gives 500 from the listener.
C24_OneResponse ==
    \A h \in DOMAIN http :
        LET req == http[h]
            route == RouteOf(req.method, req.path)
        IN  /\ Len(req.res.heads) <= 1 /\ req.res.ends <= 1
            /\ req.pc = "ended" =>
                  /\ Len(req.res.heads) = 1 /\ req.res.ends = 1
                  /\ MissingParameter(req) =>
                         req.res.heads = <<400>> /\ req.serviceCalls = <<>>
                  /\ req.failed => req.res.heads = <<400>>
                  /\ route = "none" => req.res.heads = <<404>>
                  /\ (route \in {"transcribe-video", "remove-video"}
                        /\ req.body.k = "invalid") => req.res.heads = <<500>>

(***************************************************************************)
(* Properties of TranscriptionJobService.                                  *)
(***************************************************************************)
IsSet(field) == field # Undefined

ReturnedIds == {jobs.returned[n].jobId : n \in 1..Len(jobs.returned)}

JobsWellFormed ==
    /\ \A jobId \in DOMAIN jobs.map :
          LET job == jobs.map[jobId]
          IN  /\ job.status \in {"processing", "completed", "failed"}
              /\ IsSet(job.result) <=> job.status = "completed"
              /\ IsSet(job.completedAt) <=> job.status = "completed"
              /\ IsSet(job.error) <=> job.status = "failed"
    /\ \A n \in 1..Len(jobs.returned) :
          /\ jobs.returned[n].status = "processing"
          /\ IsSet(GetJobOf(jobs.map, jobs.returned[n].jobId))
          /\ GetJobOf(jobs.map, jobs.returned[n].jobId)[1].jobId = jobs.returned[n].jobId
          /\ GetJobOf(jobs.map, jobs.returned[n].jobId)[1].videoId
                 = jobs.returned[n].videoId
    /\ IF jobs.asked \in ReturnedIds
       THEN IsSet(jobs.got) /\ jobs.got[1].jobId = jobs.asked
       ELSE ~IsSet(jobs.got)

JobLifecycle ==
    \A jobId \in DOMAIN jobs.map :
        /\ jobId \in DOMAIN jobs'.map
        /\ jobs'.map[jobId].status # jobs.map[jobId].status =>
              /\ jobs.map[jobId].status = "processing"
              /\ jobs'.map[jobId].status \in {"completed", "failed"}

\* C29: every job goes processing -> completed or processing -> failed and
\* nothing else: createJob returns the job in status 'processing', a
\* completed or failed job never changes status again, result and
\* completedAt are set exactly when the status is 'completed', error exactly
\* when it is 'failed', and getJob finds every job createJob returned at any
\* later time.
C29_JobLifecycle == []JobsWellFormed /\ [][JobLifecycle]_vars

\* one job completed with the joined transcript, another failed, and getJob
\* asked for the completed one after it completed
C29_Witness ==
    /\ Len(jobs.map) = 2
    /\ jobs.map[1].status = "completed"
    /\ jobs.map[1].result[1].transcript = <<"a", " ", "b">>
    /\ jobs.map[1].result[1].metadata.totalSegments = 2
    /\ jobs.map[2].status = "failed"
    /\ IsPrefixOf(<<"Failed to get transcript: ">>, jobs.map[2].error[1])
    /\ jobs.asked = 1 /\ IsSet(jobs.got) /\ jobs.got[1].status = "completed"

(***************************************************************************)
(* Properties of SharedGoogleOAuthClient.                                  *)
(***************************************************************************)
\* the entries of the space-separated scope list of a token
WholeEntries(token) ==
    IF token.scope = <<>> THEN {}
    ELSE LET entries == SplitOn(token.scope[1], " ")
         IN  {entries[i] : i \in 1..Len(entries)}

RequiredScopes(service) ==
    {SERVICE_SCOPES(service)[i] : i \in 1..Len(SERVICE_SCOPES(service))}

\* C22: getAuthenticatedClient(service) returns a client only when the scope
\* list of the stored token contains every scope of SERVICE_SCOPES[service] as
\* a whole entry; a token lacking one of them is rejected with the "missing
\* required scopes" error, and hasValidTokens returns false for it.
C22_WholeScopeEntries ==
    \A o \in DOMAIN oauth.ops :
        LET op == oauth.ops[o]
            granted == RequiredScopes(op.service) \subseteq WholeEntries(op.outcome.checked)
        IN  (op.pc = "ended" /\ op.outcome.checked.k = "token") =>
                /\ op.kind = "getAuthenticatedClient" =>
                       /\ op.outcome.kind = "client" <=> granted
                       /\ ~granted =>
                              IsPrefixOf(<<"OAuth tokens missing required scopes for ">>,
                                         op.outcome.message)
                /\ op.kind = "hasValidTokens" => op.outcome.value = granted

\* C30: initialize builds its state at most once even when several
\* operations call it concurrently: at most one OAuth2Client is created per
\* instance, credentials and tokens are loaded once, and the tokens stored by
\* a completed exchangeCodeForTokens are not overwritten afterwards by a
\* late-finishing initialize that reloads the token file.
C30_InitializeOnce ==
    /\ oauth.created <= 1
    /\ oauth.credentialLoads <= 1
    /\ oauth.tokenLoads <= 1
    /\ ~oauth.reloadedAfterExchange

====
